---- MODULE Spec2Model ----
(***************************************************************************)
(* Model of the limit order book of pmr-market-simulator                   *)
(* (src/src/order_book.cpp, src/include/msim/order_book.hpp).              *)
(*                                                                         *)
(* Prices are exact multiples of a price quantum; one tick is inv_tick_    *)
(* quanta, so price_to_tick really rounds and tick_to_price really snaps.  *)
(* Level objects live in a heap (book.levels) and are referred to by       *)
(* pointer (index into the heap, 0 = nullptr), so level recycling through  *)
(* free_levels_ is modelled as the code does it.                           *)
(*                                                                         *)
(* Further specifications of the module: SpecMisuse (the book called       *)
(* against add_order's preconditions), SpecMap (the slot table of          *)
(* FlatHashMap, src/include/msim/flat_hash.hpp), SpecLoad (the load        *)
(* counters of the book's fixed-size maps) and SpecRing (SpscRing,         *)
(* src/include/msim/spsc_ring.hpp, with its producer and consumer).        *)
(***************************************************************************)
EXTENDS Integers, Sequences, FiniteSets, TLC

(***************************************************************************)
(* Bounds of the model                                                     *)
(***************************************************************************)
MaxId  == 3   \* order ids are 1..MaxId, so at most MaxId orders rest at once
MaxPx  == 5   \* incoming prices are 2..MaxPx price quanta
MaxQty == 2   \* incoming quantities are 1..MaxQty
MaxOps == 4   \* number of add_order / cancel_order calls in one run

\* price quanta per tick: inv_tick_ = 1 / tick_size_
inv_tick_ == 2

Ids    == 1..MaxId
Prices == 2..MaxPx
Qtys   == 1..MaxQty
Sides  == {"BUY", "SELL"}

VARIABLES
  book,         \* the OrderBook object
  trade_price,  \* the caller's double passed by reference to add_order
  last,         \* the last completed call: its arguments (the price as the
                \* tick it rounds to) and its return value
  now,          \* number of calls made so far; also the ts_ns of the next order
  aborted,      \* std::abort() was reached
  fmap,         \* a FlatHashMap object on its own: table_, mask_, size_, tombs_
  fabs,         \* the finite map the FlatHashMap stands for
  flast,        \* the last completed FlatHashMap call and its outcome
  fops,         \* number of FlatHashMap calls made so far
  fdead,        \* die_capacity() was reached
  levels_load,  \* size_ and tombs_ of a book's bid_levels_
  index_load,   \* size_ and tombs_ of the book's index_
  load_erases,  \* number of cancels made so far in a run that counts load
  load_dead,    \* the book aborted in die_capacity()
  head_,        \* SpscRing::head_, the producer's cursor
  tail_,        \* SpscRing::tail_, the consumer's cursor
  buf_,         \* SpscRing::buf_, the slots
  prod,         \* the producer thread: its position inside try_push, its
                \* locals, the value it pushes next and its last return value
  cons,         \* the consumer thread: its position inside try_pop, its
                \* locals, out and its last return value
  got,          \* the values the consumer has popped, in order
  hb,           \* what the cursors' stores have released: the number of slot
                \* constructions that happen before head_'s value, the number
                \* of slot destructions that happen before tail_'s value; and
                \* whether a slot holding an object was constructed over
  cfg_,         \* run_mt: SimConfig (num_threads, total_events), the number of
                \* symbols of syms_ and std::thread::hardware_concurrency()
  contexts,     \* run_mt: the ThreadContext of every worker
  workers,      \* run_mt: every worker thread's position, iteration count i
                \* and local_id
  touched,      \* run_mt: for every OrderBook object and every ThreadContext,
                \* the worker threads that have accessed it
  joined,       \* run_mt: every worker thread has been joined
  run_cfg,      \* run: the SimConfig both Simulators are built from, and the
                \* steady clock's reading when each run starts
  runs,         \* run: the state of each of the two single-threaded runs
  stream,       \* run: what the generator seeded with cfg_.seed has returned,
                \* draw by draw, as far as a run has drawn
  ev,           \* codec: the Event given to serialize
  wire,         \* codec: the bytes given to deserialize
  wire_len,     \* codec: the len given to deserialize
  decoded,      \* codec: what deserialize returned, with consumed and the
                \* highest offset of data it read
  opts,         \* main: the SimConfig parsed from the command line and no_log
  sinks,        \* main: the Simulator's storage_ and grpc_sink_, once built
  sink_writers  \* main: the threads that have called emit_event

bookVars == <<book, trade_price, last, now, aborted>>
mapVars == <<fmap, fabs, flast, fops, fdead>>
loadVars == <<levels_load, index_load, load_erases, load_dead>>
ringVars == <<head_, tail_, buf_, prod, cons, got, hb>>
mtVars == <<cfg_, contexts, workers, touched, joined>>
runVars == <<run_cfg, runs, stream>>
codecVars == <<ev, wire, wire_len, decoded>>
mainVars == <<opts, sinks, sink_writers>>
vars == <<bookVars, mapVars, loadVars, ringVars, mtVars, runVars, codecVars, mainVars>>

\* what the actions of one component leave alone
notBook == <<mapVars, loadVars, ringVars, mtVars, runVars, codecVars, mainVars>>
notMap == <<bookVars, loadVars, ringVars, mtVars, runVars, codecVars, mainVars>>
notLoad == <<bookVars, mapVars, ringVars, mtVars, runVars, codecVars, mainVars>>
notRing == <<bookVars, mapVars, loadVars, mtVars, runVars, codecVars, mainVars>>
notMt == <<bookVars, mapVars, loadVars, ringVars, runVars, codecVars, mainVars>>
notRun == <<bookVars, mapVars, loadVars, ringVars, mtVars, codecVars, mainVars>>
notCodec == <<bookVars, mapVars, loadVars, ringVars, mtVars, runVars, mainVars>>
notMain == <<bookVars, mapVars, loadVars, ringVars, mtVars, runVars, codecVars>>

(***************************************************************************)
(* std::optional<int32_t>                                                  *)
(***************************************************************************)
None == <<>>
Some(t) == <<t>>

nullptr == 0

(***************************************************************************)
(* FlatHashMap as used by the book: a finite map with find_ptr, insert     *)
(* (false on a duplicate key) and erase.                                   *)
(***************************************************************************)
EmptyMap == <<>>

contains(m, k) == k \in DOMAIN m

insert(m, k, v) ==
  IF k \in DOMAIN m
    THEN [ok |-> FALSE, m |-> m]
    ELSE [ok |-> TRUE,
          m  |-> [x \in (DOMAIN m) \cup {k} |-> IF x = k THEN v ELSE m[x]]]

erase(m, k) == [x \in (DOMAIN m) \ {k} |-> m[x]]

(***************************************************************************)
(* struct Level: constructor and reset                                     *)
(***************************************************************************)
Level_new(t) == [tick |-> t, q |-> <<>>]

\* seeded fault: the tick of the reused level is not set
Level_reset_keeps_tick(l, t) == [l EXCEPT !.q = <<>>]

Level_reset(l, t) == [l EXCEPT !.tick = t, !.q = <<>>]

(***************************************************************************)
(* Price <-> tick                                                          *)
(***************************************************************************)
\* llround(px * inv_tick_): nearest integer, ties away from zero
price_to_tick(px) ==
  IF px >= 0
    THEN (2 * px + inv_tick_) \div (2 * inv_tick_)
    ELSE 0 - ((2 * (0 - px) + inv_tick_) \div (2 * inv_tick_))

tick_to_price(t) == t * inv_tick_

(***************************************************************************)
(* Private helpers of OrderBook; each takes the book and returns the book  *)
(***************************************************************************)
get_level(b, side, tick) ==
  IF side = "BUY"
    THEN IF contains(b.bid_levels, tick) THEN b.bid_levels[tick] ELSE nullptr
    ELSE IF contains(b.ask_levels, tick) THEN b.ask_levels[tick] ELSE nullptr

\* seeded fault: the cached best is set only when the side had none
add_active_tick_first_only(b, side, tick) ==
  IF side = "BUY"
    THEN [b EXCEPT !.bid_ticks = Append(@, tick),
                   !.best_bid_tick = IF @ = None THEN Some(tick) ELSE @]
    ELSE [b EXCEPT !.ask_ticks = Append(@, tick),
                   !.best_ask_tick = IF @ = None THEN Some(tick) ELSE @]

add_active_tick(b, side, tick) ==
  IF side = "BUY"
    THEN [b EXCEPT !.bid_ticks = Append(@, tick),
                   !.best_bid_tick = IF @ = None \/ tick > @[1] THEN Some(tick) ELSE @]
    ELSE [b EXCEPT !.ask_ticks = Append(@, tick),
                   !.best_ask_tick = IF @ = None \/ tick < @[1] THEN Some(tick) ELSE @]

\* seeded fault: pops the back without first copying it over the match
swap_remove_pop_only(v, tick) ==
  IF \E i \in 1..Len(v) : v[i] = tick
    THEN SubSeq(v, 1, Len(v) - 1)
    ELSE v

\* the loop of remove_active_tick on one vector: swap the first match with
\* the back and pop
swap_remove(v, tick) ==
  IF \E i \in 1..Len(v) : v[i] = tick
    THEN LET i == CHOOSE i \in 1..Len(v) :
                    v[i] = tick /\ \A j \in 1..(i - 1) : v[j] # tick
         IN  SubSeq([v EXCEPT ![i] = v[Len(v)]], 1, Len(v) - 1)
    ELSE v

remove_active_tick(b, side, tick) ==
  IF side = "BUY"
    THEN [b EXCEPT !.bid_ticks = swap_remove(@, tick)]
    ELSE [b EXCEPT !.ask_ticks = swap_remove(@, tick)]

RECURSIVE SeqMax(_), SeqMin(_)
SeqMax(v) ==
  IF Len(v) = 1 THEN v[1]
  ELSE LET r == SeqMax(Tail(v)) IN IF v[1] > r THEN v[1] ELSE r
SeqMin(v) ==
  IF Len(v) = 1 THEN v[1]
  ELSE LET r == SeqMin(Tail(v)) IN IF v[1] < r THEN v[1] ELSE r

recompute_best(b, side) ==
  IF side = "BUY"
    THEN [b EXCEPT !.best_bid_tick =
            IF b.bid_ticks = <<>> THEN None ELSE Some(SeqMax(b.bid_ticks))]
    ELSE [b EXCEPT !.best_ask_tick =
            IF b.ask_ticks = <<>> THEN None ELSE Some(SeqMin(b.ask_ticks))]

\* returns the book, the level pointer and whether std::abort() was reached
get_or_create_level(b, side, tick) ==
  LET found == get_level(b, side, tick) IN
  IF found # nullptr
    THEN [book |-> b, lvl |-> found, aborted |-> FALSE]
    ELSE
      LET reuse == b.free_levels # <<>>
          lvl   == IF reuse THEN b.free_levels[Len(b.free_levels)]
                            ELSE Len(b.levels) + 1
          b1    == IF reuse
                     THEN [b EXCEPT !.free_levels = SubSeq(@, 1, Len(@) - 1),
                                    !.levels[lvl] = Level_reset(@, tick)]
                     ELSE [b EXCEPT !.levels = Append(@, Level_new(tick))]
          ins   == IF side = "BUY" THEN insert(b1.bid_levels, tick, lvl)
                                   ELSE insert(b1.ask_levels, tick, lvl)
          b2    == IF side = "BUY" THEN [b1 EXCEPT !.bid_levels = ins.m]
                                   ELSE [b1 EXCEPT !.ask_levels = ins.m]
      IN [book |-> add_active_tick(b2, side, tick), lvl |-> lvl,
          aborted |-> ~ins.ok]

\* seeded fault: the early return on a non-empty queue is missing
remove_level_always(b, side, tick, lvl) ==
  LET b1 == IF side = "BUY" THEN [b EXCEPT !.bid_levels = erase(@, tick)]
                            ELSE [b EXCEPT !.ask_levels = erase(@, tick)]
      b2 == remove_active_tick(b1, side, tick)
      b3 == IF side = "BUY"
              THEN IF b2.best_bid_tick = Some(tick)
                     THEN recompute_best(b2, "BUY") ELSE b2
              ELSE IF b2.best_ask_tick = Some(tick)
                     THEN recompute_best(b2, "SELL") ELSE b2
  IN [b3 EXCEPT !.free_levels = Append(@, lvl)]

remove_level_if_empty(b, side, tick, lvl) ==
  IF b.levels[lvl].q # <<>> THEN b
  ELSE
    LET b1 == IF side = "BUY" THEN [b EXCEPT !.bid_levels = erase(@, tick)]
                              ELSE [b EXCEPT !.ask_levels = erase(@, tick)]
        b2 == remove_active_tick(b1, side, tick)
        b3 == IF side = "BUY"
                THEN IF b2.best_bid_tick = Some(tick)
                       THEN recompute_best(b2, "BUY") ELSE b2
                ELSE IF b2.best_ask_tick = Some(tick)
                       THEN recompute_best(b2, "SELL") ELSE b2
    IN [b3 EXCEPT !.free_levels = Append(@, lvl)]

(***************************************************************************)
(* add_order                                                               *)
(***************************************************************************)
Opp(side) == IF side = "BUY" THEN "SELL" ELSE "BUY"

\* seeded fault: strict comparisons, an order at the opposite best tick does not match
crosses_strict(side, best, tick) ==
  IF side = "BUY" THEN best < tick ELSE best > tick

\* the crossing test of the outer matching loop, for an incoming order of
\* the given side at the given tick against the opposite best tick
crosses(side, best, tick) ==
  IF side = "BUY" THEN best <= tick ELSE best >= tick

\* seeded fault: a filled resting order is popped but stays in the index
fill_top_keep_index(q, index, remaining, tp) ==
  LET top    == q[1]
      traded == IF remaining < top.qty THEN remaining ELSE top.qty
  IN IF top.qty - traded = 0
       THEN [q |-> Tail(q), index |-> index,
             remaining |-> remaining - traded, trade_price |-> top.price]
       ELSE [q |-> [q EXCEPT ![1].qty = top.qty - traded], index |-> index,
             remaining |-> remaining - traded, trade_price |-> top.price]

\* seeded fault: fills against q.back() and pops the back
fill_top_back(q, index, remaining, tp) ==
  LET n      == Len(q)
      top    == q[n]
      traded == IF remaining < top.qty THEN remaining ELSE top.qty
  IN IF top.qty - traded = 0
       THEN [q |-> SubSeq(q, 1, n - 1), index |-> erase(index, top.id),
             remaining |-> remaining - traded, trade_price |-> top.price]
       ELSE [q |-> [q EXCEPT ![n].qty = top.qty - traded], index |-> index,
             remaining |-> remaining - traded, trade_price |-> top.price]

\* seeded fault: trade_price is assigned only when the resting order is filled
\* completely
fill_top_price_on_full(q, index, remaining, tp) ==
  LET top    == q[1]
      traded == IF remaining < top.qty THEN remaining ELSE top.qty
  IN IF top.qty - traded = 0
       THEN [q |-> Tail(q), index |-> erase(index, top.id),
             remaining |-> remaining - traded, trade_price |-> top.price]
       ELSE [q |-> [q EXCEPT ![1].qty = top.qty - traded], index |-> index,
             remaining |-> remaining - traded, trade_price |-> tp]

\* one iteration of the inner loop: fill against q.front()
fill_top(q, index, remaining, tp) ==
  LET top    == q[1]
      traded == IF remaining < top.qty THEN remaining ELSE top.qty
  IN IF top.qty - traded = 0
       THEN [q |-> Tail(q), index |-> erase(index, top.id),
             remaining |-> remaining - traded, trade_price |-> top.price]
       ELSE [q |-> [q EXCEPT ![1].qty = top.qty - traded], index |-> index,
             remaining |-> remaining - traded, trade_price |-> top.price]

\* the inner loop: while (remaining > 0 && !q.empty())
RECURSIVE fill_level(_, _, _, _)
fill_level(q, index, remaining, tp) ==
  IF remaining > 0 /\ q # <<>>
    THEN LET f == fill_top(q, index, remaining, tp)
         IN  fill_level(f.q, f.index, f.remaining, f.trade_price)
    ELSE [q |-> q, index |-> index, remaining |-> remaining, trade_price |-> tp]

\* the outer loop: match against the best opposite level while crossing
RECURSIVE match_loop(_, _, _, _, _)
match_loop(b, side, tick, remaining, tp) ==
  LET best == IF side = "BUY" THEN b.best_ask_tick ELSE b.best_bid_tick IN
  IF ~(remaining > 0 /\ best # None /\ crosses(side, best[1], tick))
    THEN [book |-> b, remaining |-> remaining, trade_price |-> tp]
    ELSE
      LET best_tick == best[1]
          lvl       == get_level(b, Opp(side), best_tick)
      IN IF lvl = nullptr
           THEN match_loop(recompute_best(b, Opp(side)), side, tick, remaining, tp)
           ELSE
             LET f  == fill_level(b.levels[lvl].q, b.index, remaining, tp)
                 b1 == [b EXCEPT !.levels[lvl].q = f.q, !.index = f.index]
             IN match_loop(remove_level_if_empty(b1, Opp(side), best_tick, lvl),
                           side, tick, f.remaining, f.trade_price)

\* seeded fault: returns the remaining quantity instead of the matched quantity
add_order_returns_remaining(b, o, tp) ==
  LET tick       == price_to_tick(o.price)
      snapped_px == tick_to_price(tick)
      m          == match_loop(b, o.side, tick, o.qty, tp)
  IN IF m.remaining > 0
       THEN
         LET g    == get_or_create_level(m.book, o.side, tick)
             rest == [o EXCEPT !.qty = m.remaining, !.price = snapped_px]
             b1   == [g.book EXCEPT !.levels[g.lvl].q = Append(@, rest)]
             ins  == insert(b1.index, rest.id, [side |-> o.side, tick |-> tick])
         IN [book |-> [b1 EXCEPT !.index = ins.m], ret |-> m.remaining,
             trade_price |-> m.trade_price, aborted |-> g.aborted \/ ~ins.ok]
       ELSE [book |-> m.book, ret |-> m.remaining,
             trade_price |-> m.trade_price, aborted |-> FALSE]

\* seeded fault: the residual rests with the incoming price, not the snapped one
add_order_unsnapped(b, o, tp) ==
  LET tick       == price_to_tick(o.price)
      m          == match_loop(b, o.side, tick, o.qty, tp)
  IN IF m.remaining > 0
       THEN
         LET g    == get_or_create_level(m.book, o.side, tick)
             rest == [o EXCEPT !.qty = m.remaining]
             b1   == [g.book EXCEPT !.levels[g.lvl].q = Append(@, rest)]
             ins  == insert(b1.index, rest.id, [side |-> o.side, tick |-> tick])
         IN [book |-> [b1 EXCEPT !.index = ins.m], ret |-> o.qty - m.remaining,
             trade_price |-> m.trade_price, aborted |-> g.aborted \/ ~ins.ok]
       ELSE [book |-> m.book, ret |-> o.qty - m.remaining,
             trade_price |-> m.trade_price, aborted |-> FALSE]

\* returns the book, the return value, the caller's trade_price and whether
\* std::abort() was reached
\* seeded fault: a completely matched order rests as well, with quantity 0
add_order_rests_filled(b, o, tp) ==
  LET tick       == price_to_tick(o.price)
      snapped_px == tick_to_price(tick)
      m          == match_loop(b, o.side, tick, o.qty, tp)
  IN IF m.remaining >= 0
       THEN
         LET g    == get_or_create_level(m.book, o.side, tick)
             rest == [o EXCEPT !.qty = m.remaining, !.price = snapped_px]
             b1   == [g.book EXCEPT !.levels[g.lvl].q = Append(@, rest)]
             ins  == insert(b1.index, rest.id, [side |-> o.side, tick |-> tick])
         IN [book |-> [b1 EXCEPT !.index = ins.m], ret |-> o.qty - m.remaining,
             trade_price |-> m.trade_price, aborted |-> g.aborted \/ ~ins.ok]
       ELSE [book |-> m.book, ret |-> o.qty - m.remaining,
             trade_price |-> m.trade_price, aborted |-> FALSE]

add_order(b, o, tp) ==
  LET tick       == price_to_tick(o.price)
      snapped_px == tick_to_price(tick)
      m          == match_loop(b, o.side, tick, o.qty, tp)
  IN IF m.remaining > 0
       THEN
         LET g    == get_or_create_level(m.book, o.side, tick)
             rest == [o EXCEPT !.qty = m.remaining, !.price = snapped_px]
             b1   == [g.book EXCEPT !.levels[g.lvl].q = Append(@, rest)]
             ins  == insert(b1.index, rest.id, [side |-> o.side, tick |-> tick])
         IN [book |-> [b1 EXCEPT !.index = ins.m], ret |-> o.qty - m.remaining,
             trade_price |-> m.trade_price, aborted |-> g.aborted \/ ~ins.ok]
       ELSE [book |-> m.book, ret |-> o.qty - m.remaining,
             trade_price |-> m.trade_price, aborted |-> FALSE]

(***************************************************************************)
(* cancel_order                                                            *)
(***************************************************************************)
\* q.erase(it)
erase_at(q, i) == SubSeq(q, 1, i - 1) \o SubSeq(q, i + 1, Len(q))

\* seeded fault: only the front of the queue is compared with the id
cancel_order_front_only(b, order_id) ==
  IF ~contains(b.index, order_id) THEN [book |-> b, ret |-> FALSE]
  ELSE
    LET side == b.index[order_id].side
        tick == b.index[order_id].tick
        lvl  == get_level(b, side, tick)
    IN IF lvl = nullptr
         THEN [book |-> [b EXCEPT !.index = erase(@, order_id)], ret |-> FALSE]
         ELSE
           LET q == b.levels[lvl].q IN
           IF q # <<>> /\ q[1].id = order_id
             THEN
               LET b1 == [b EXCEPT !.levels[lvl].q = erase_at(@, 1),
                                   !.index = erase(@, order_id)]
               IN [book |-> remove_level_if_empty(b1, side, tick, lvl), ret |-> TRUE]
             ELSE [book |-> [b EXCEPT !.index = erase(@, order_id)], ret |-> FALSE]

\* seeded fault: a stale index entry is left in place
cancel_order_keeps_stale(b, order_id) ==
  IF ~contains(b.index, order_id) THEN [book |-> b, ret |-> FALSE]
  ELSE
    LET side == b.index[order_id].side
        tick == b.index[order_id].tick
        lvl  == get_level(b, side, tick)
    IN IF lvl = nullptr
         THEN [book |-> b, ret |-> FALSE]
         ELSE
           LET q == b.levels[lvl].q IN
           IF \E i \in 1..Len(q) : q[i].id = order_id
             THEN
               LET it == CHOOSE i \in 1..Len(q) :
                            q[i].id = order_id /\ \A j \in 1..(i - 1) : q[j].id # order_id
                   b1 == [b EXCEPT !.levels[lvl].q = erase_at(@, it),
                                   !.index = erase(@, order_id)]
               IN [book |-> remove_level_if_empty(b1, side, tick, lvl), ret |-> TRUE]
             ELSE [book |-> b, ret |-> FALSE]

cancel_order(b, order_id) ==
  IF ~contains(b.index, order_id) THEN [book |-> b, ret |-> FALSE]
  ELSE
    LET side == b.index[order_id].side
        tick == b.index[order_id].tick
        lvl  == get_level(b, side, tick)
    IN IF lvl = nullptr
         THEN [book |-> [b EXCEPT !.index = erase(@, order_id)], ret |-> FALSE]
         ELSE
           LET q == b.levels[lvl].q IN
           IF \E i \in 1..Len(q) : q[i].id = order_id
             THEN
               LET it == CHOOSE i \in 1..Len(q) :
                            q[i].id = order_id /\ \A j \in 1..(i - 1) : q[j].id # order_id
                   b1 == [b EXCEPT !.levels[lvl].q = erase_at(@, it),
                                   !.index = erase(@, order_id)]
               IN [book |-> remove_level_if_empty(b1, side, tick, lvl), ret |-> TRUE]
             ELSE [book |-> [b EXCEPT !.index = erase(@, order_id)], ret |-> FALSE]

best_bid(b) ==
  IF b.best_bid_tick = None THEN None ELSE Some(tick_to_price(b.best_bid_tick[1]))

best_ask(b) ==
  IF b.best_ask_tick = None THEN None ELSE Some(tick_to_price(b.best_ask_tick[1]))

index_size(b) == Cardinality(DOMAIN b.index)

(***************************************************************************)
(* The book as a state machine: a single thread calls add_order and        *)
(* cancel_order, respecting add_order's input preconditions.               *)
(***************************************************************************)
OrderBook_new ==
  [bid_levels |-> EmptyMap, ask_levels |-> EmptyMap, index |-> EmptyMap,
   bid_ticks |-> <<>>, ask_ticks |-> <<>>, free_levels |-> <<>>,
   best_bid_tick |-> None, best_ask_tick |-> None,
   levels |-> <<>>]

NoCall == [op |-> "none", id |-> 0, side |-> "BUY", tick |-> 0, qty |-> 0,
           matched |-> 0, ok |-> FALSE]

\* the book right after its construction
BookInit ==
  /\ book = OrderBook_new
  /\ trade_price = 0
  /\ last = NoCall
  /\ now = 0
  /\ aborted = FALSE

\* no FlatHashMap is exercised on its own
MapAbsent ==
  /\ fmap = None
  /\ fabs = None
  /\ flast = None
  /\ fops = 0
  /\ fdead = FALSE

\* no run that counts the load of the book's maps
LoadAbsent ==
  /\ levels_load = None
  /\ index_load = None
  /\ load_erases = 0
  /\ load_dead = FALSE

\* no ring
RingAbsent ==
  /\ head_ = 0
  /\ tail_ = 0
  /\ buf_ = None
  /\ prod = None
  /\ cons = None
  /\ got = None
  /\ hb = None

\* run_mt is not called
MtAbsent ==
  /\ cfg_ = None
  /\ contexts = None
  /\ workers = None
  /\ touched = None
  /\ joined = FALSE

\* run is not called
RunAbsent ==
  /\ run_cfg = None
  /\ runs = None
  /\ stream = None

\* no Event is serialized or deserialized
CodecAbsent ==
  /\ ev = None
  /\ wire = None
  /\ wire_len = 0
  /\ decoded = None

\* main is not run
MainAbsent ==
  /\ opts = None
  /\ sinks = None
  /\ sink_writers = {}

\* every component other than c is as constructed and stays out of the run
Others(c) ==
  /\ IF c = "main" THEN TRUE ELSE MainAbsent
  /\ IF c = "run" THEN TRUE ELSE RunAbsent
  /\ IF c = "codec" THEN TRUE ELSE CodecAbsent
  /\ IF c = "mt" THEN TRUE ELSE MtAbsent
  /\ IF c = "book" THEN TRUE ELSE BookInit
  /\ IF c = "map" THEN TRUE ELSE MapAbsent
  /\ IF c = "load" THEN TRUE ELSE LoadAbsent
  /\ IF c = "ring" THEN TRUE ELSE RingAbsent

Init == BookInit /\ Others("book")

AddOrder(id, side, px, qty) ==
  /\ ~aborted
  /\ now < MaxOps
  /\ LET o == [id |-> id, price |-> px, qty |-> qty, side |-> side, ts_ns |-> now]
         r == add_order(book, o, trade_price)
     IN /\ book' = r.book
        /\ trade_price' = r.trade_price
        /\ aborted' = r.aborted
        /\ last' = [op |-> "add", id |-> id, side |-> side,
                    tick |-> price_to_tick(px), qty |-> qty,
                    matched |-> r.ret, ok |-> FALSE]
  /\ now' = now + 1
  /\ UNCHANGED notBook

CancelOrder(id) ==
  /\ ~aborted
  /\ now < MaxOps
  /\ LET r == cancel_order(book, id)
     IN /\ book' = r.book
        /\ last' = [op |-> "cancel", id |-> id, side |-> "BUY", tick |-> 0,
                    qty |-> 0, matched |-> 0, ok |-> r.ret]
  /\ now' = now + 1
  /\ UNCHANGED <<trade_price, aborted>>
  /\ UNCHANGED notBook

\* The caller's choice of the id of a new order: an id that is not resting
\* (add_order's precondition). The book uses ids only as keys of index_, so
\* the smallest such id stands for all of them; ids are reused once free.
NewId(b, id) ==
  /\ ~contains(b.index, id)
  /\ \A j \in Ids : ~contains(b.index, j) => id <= j

Next ==
  \/ \E id \in Ids, side \in Sides, px \in Prices, qty \in Qtys :
       NewId(book, id) /\ AddOrder(id, side, px, qty)
  \/ \E id \in Ids : CancelOrder(id)

Spec == Init /\ [][Next]_vars

(***************************************************************************)
(* Views of the book used by the properties                                *)
(***************************************************************************)
LevelsMap(b, side) == IF side = "BUY" THEN b.bid_levels ELSE b.ask_levels

TicksVec(b, side) == IF side = "BUY" THEN b.bid_ticks ELSE b.ask_ticks

\* the queue reached through the side's tick map, empty if there is no level
QueueAt(b, side, t) ==
  IF t \in DOMAIN LevelsMap(b, side) THEN b.levels[LevelsMap(b, side)[t]].q ELSE <<>>

\* every (level pointer, queue position) of the heap that holds an order
HeapSlots(b) ==
  UNION {{<<l, i>> : i \in 1..Len(b.levels[l].q)} : l \in 1..Len(b.levels)}

OrderIn(b, s) == b.levels[s[1]].q[s[2]]

\* the orders resting on a side, each with the tick map key and the queue
\* position it is reached at
SideSlots(b, side) ==
  UNION {{[tick |-> t, pos |-> i, o |-> QueueAt(b, side, t)[i]] :
            i \in 1..Len(QueueAt(b, side, t))} : t \in DOMAIN LevelsMap(b, side)}

RECURSIVE SumQty(_)
SumQty(S) ==
  IF S = {} THEN 0
  ELSE LET r == CHOOSE r \in S : TRUE IN r.o.qty + SumQty(S \ {r})

TotalQty(b, side) == SumQty(SideSlots(b, side))

\* resting quantity of the order with this id on this side, 0 if none rests
QtyOf(b, side, id) == SumQty({r \in SideSlots(b, side) : r.o.id = id})

NonEmptyTicks(b, side) ==
  {t \in DOMAIN LevelsMap(b, side) : QueueAt(b, side, t) # <<>>}

SetMax(S) == CHOOSE x \in S : \A y \in S : y <= x
SetMin(S) == CHOOSE x \in S : \A y \in S : x <= y

Count(v, x) == Cardinality({i \in 1..Len(v) : v[i] = x})

Without(q, id) == SelectSeq(q, LAMBDA o : o.id # id)

(***************************************************************************)
(* C1: every id of the index has exactly one order with that id, in        *)
(* exactly one level's queue, and that level is the one the tick map of    *)
(* the recorded side holds at the recorded tick; every order resting in a  *)
(* level queue has an index entry.                                         *)
(***************************************************************************)
IndexMatchesQueues ==
  /\ \A id \in DOMAIN book.index :
       LET ref == book.index[id]
           at  == {s \in HeapSlots(book) : OrderIn(book, s).id = id}
       IN /\ Cardinality(at) = 1
          /\ \A s \in at :
               /\ ref.tick \in DOMAIN LevelsMap(book, ref.side)
               /\ LevelsMap(book, ref.side)[ref.tick] = s[1]
               /\ book.levels[s[1]].tick = ref.tick
               /\ OrderIn(book, s).side = ref.side
               /\ price_to_tick(OrderIn(book, s).price) = ref.tick
  /\ \A s \in HeapSlots(book) : OrderIn(book, s).id \in DOMAIN book.index

\* the third call was an add that filled one of two resting orders
\* completely (its index entry was erased) and left a residual resting
IndexMatchesQueuesWitness ==
  /\ last.op = "add" /\ last.matched > 0 /\ last.id \in DOMAIN book.index
  /\ index_size(book) = 2 /\ now = 3
  /\ SideSlots(book, "BUY") # {} /\ SideSlots(book, "SELL") # {}

(***************************************************************************)
(* C2: after every completed call the book is not crossed: if both sides   *)
(* hold a resting order, best_bid() < best_ask().                          *)
(***************************************************************************)
NeverCrossed ==
  (\E s \in HeapSlots(book) : OrderIn(book, s).side = "BUY") /\
  (\E s \in HeapSlots(book) : OrderIn(book, s).side = "SELL")
    => /\ best_bid(book) # None /\ best_ask(book) # None
       /\ best_bid(book)[1] < best_ask(book)[1]
       /\ book.best_bid_tick[1] < book.best_ask_tick[1]

\* an incoming order matched part of its quantity and its residual rests
\* while the opposite side still holds orders
NeverCrossedWitness ==
  /\ last.op = "add" /\ last.matched > 0 /\ last.matched < last.qty
  /\ SideSlots(book, "BUY") # {} /\ SideSlots(book, "SELL") # {}

(***************************************************************************)
(* C3: best_bid_tick is the maximum tick among the bid levels with a       *)
(* non-empty queue, best_ask_tick the minimum among the ask levels, none   *)
(* when the side has no such level; best_bid()/best_ask() return that      *)
(* tick times the tick size, or none.                                      *)
(***************************************************************************)
BestTicksExact ==
  /\ book.best_bid_tick =
       IF NonEmptyTicks(book, "BUY") = {} THEN None
       ELSE Some(SetMax(NonEmptyTicks(book, "BUY")))
  /\ book.best_ask_tick =
       IF NonEmptyTicks(book, "SELL") = {} THEN None
       ELSE Some(SetMin(NonEmptyTicks(book, "SELL")))
  /\ best_bid(book) =
       IF NonEmptyTicks(book, "BUY") = {} THEN None
       ELSE Some(SetMax(NonEmptyTicks(book, "BUY")) * inv_tick_)
  /\ best_ask(book) =
       IF NonEmptyTicks(book, "SELL") = {} THEN None
       ELSE Some(SetMin(NonEmptyTicks(book, "SELL")) * inv_tick_)

\* the best bid level was cancelled away and the best was recomputed over
\* two remaining bid ticks, the better of which is not the newest
BestTicksExactWitness ==
  /\ last.op = "cancel" /\ last.ok
  /\ Len(book.bid_ticks) = 2 /\ Len(book.free_levels) = 1
  /\ book.levels[book.free_levels[1]].tick > book.best_bid_tick[1]
  /\ book.best_bid_tick[1] = book.bid_ticks[1]
  /\ book.bid_ticks[1] > book.bid_ticks[2]

(***************************************************************************)
(* C4: for every non-empty level L, on the side of the orders it holds,    *)
(* the side's tick map has the entry (L.tick, L) and the side's            *)
(* active-tick sequence contains L.tick exactly once.                      *)
(***************************************************************************)
NonEmptyLevelsActive ==
  \A l \in 1..Len(book.levels) :
    book.levels[l].q # <<>> =>
      LET side == book.levels[l].q[1].side
          tick == book.levels[l].tick
      IN /\ tick \in DOMAIN LevelsMap(book, side)
         /\ LevelsMap(book, side)[tick] = l
         /\ Count(TicksVec(book, side), tick) = 1

\* level 1 was emptied, pooled and taken again for another order while
\* level 2 stayed active
NonEmptyLevelsActiveWitness ==
  /\ Len(book.levels) = 2
  /\ book.levels[1].q # <<>> /\ book.levels[2].q # <<>>
  /\ book.levels[1].q[1].ts_ns = 3 /\ book.levels[2].q[1].ts_ns = 1
  /\ book.levels[1].q[1].side = book.levels[2].q[1].side

(***************************************************************************)
(* C5: add_order fills in price-time priority: a resting order's quantity  *)
(* is reduced only if every resting order at a better opposite tick and    *)
(* every earlier-arrived order at the same tick has been filled            *)
(* completely; the queues are kept in arrival order.                       *)
(***************************************************************************)
Better(side, t2, t) == IF side = "SELL" THEN t2 < t ELSE t2 > t

ArrivalOrdered(b) ==
  \A l \in 1..Len(b.levels) :
    \A i, j \in 1..Len(b.levels[l].q) :
      i < j => b.levels[l].q[i].ts_ns < b.levels[l].q[j].ts_ns

PriceTimePriority ==
  [][last'.op = "add" =>
       /\ ArrivalOrdered(book')
       /\ LET opp == Opp(last'.side)
              pre == SideSlots(book, opp)
          IN \A r \in pre :
               QtyOf(book', opp, r.o.id) < r.o.qty =>
                 \A r2 \in pre :
                   (\/ Better(opp, r2.tick, r.tick)
                    \/ (r2.tick = r.tick /\
                          (r2.pos < r.pos \/ r2.o.ts_ns < r.o.ts_ns)))
                     => QtyOf(book', opp, r2.o.id) = 0]_vars

\* the earlier of two orders of one level was filled completely and the
\* later one partially
PriceTimePriorityWitness ==
  /\ last.op = "add" /\ last.matched = 2 /\ last.qty = 2
  /\ \E l \in 1..Len(book.levels) :
       /\ Len(book.levels[l].q) = 1
       /\ book.levels[l].q[1].qty = 1
       /\ book.levels[l].q[1].ts_ns = 1
       /\ book.levels[l].q[1].side # last.side
  /\ now = 3 /\ Len(book.levels) = 1

(***************************************************************************)
(* C6: add_order returns the quantity matched m, 0 <= m <= o.qty, equal    *)
(* to the minimum of o.qty and the quantity resting on the opposite side   *)
(* at crossing ticks; the opposite side's resting quantity decreases by m. *)
(***************************************************************************)
CrossingQty(b, side, tick) ==
  SumQty({r \in SideSlots(b, Opp(side)) :
            IF side = "BUY" THEN r.tick <= tick ELSE r.tick >= tick})

MinOf(a, b) == IF a < b THEN a ELSE b

MatchedQuantity ==
  [][last'.op = "add" =>
       LET side == last'.side
           tick == last'.tick
           m    == last'.matched
       IN /\ 0 <= m /\ m <= last'.qty
          /\ m = MinOf(last'.qty, CrossingQty(book, side, tick))
          /\ TotalQty(book', Opp(side)) = TotalQty(book, Opp(side)) - m]_vars

\* an order matched less than its quantity because the crossing opposite
\* quantity ran out, though a non-crossing opposite order remains
MatchedQuantityWitness ==
  /\ last.op = "add" /\ last.matched = 1 /\ last.qty = 2
  /\ TotalQty(book, Opp(last.side)) > 0

(***************************************************************************)
(* C7: if add_order matches less than o.qty, the residual rests as one     *)
(* order at the tail of the queue of the incoming tick on the incoming     *)
(* side, with its price snapped to the tick, and its id is indexed; if     *)
(* everything matched, nothing rests and the id is not indexed.            *)
(***************************************************************************)
ResidualRests ==
  [][last'.op = "add" =>
       LET side == last'.side
           tick == last'.tick
           m    == last'.matched
           rest == [id |-> last'.id, price |-> tick * inv_tick_,
                    qty |-> last'.qty - m, side |-> side, ts_ns |-> now]
           own  == (DOMAIN LevelsMap(book, side)) \cup (DOMAIN LevelsMap(book', side))
       IN IF m < last'.qty
            THEN /\ QueueAt(book', side, tick) = Append(QueueAt(book, side, tick), rest)
                 /\ \A t \in own \ {tick} : QueueAt(book', side, t) = QueueAt(book, side, t)
                 /\ last'.id \in DOMAIN book'.index
                 /\ book'.index[last'.id] = [side |-> side, tick |-> tick]
                 /\ Cardinality({s \in HeapSlots(book') : OrderIn(book', s).id = last'.id}) = 1
            ELSE /\ \A t \in own : QueueAt(book', side, t) = QueueAt(book, side, t)
                 /\ LevelsMap(book', side) = LevelsMap(book, side)
                 /\ last'.id \notin DOMAIN book'.index
                 /\ \A s \in HeapSlots(book') : OrderIn(book', s).id # last'.id]_vars

\* the residual of a partly matched order rests in the level object its own
\* match had emptied
ResidualRestsWitness ==
  /\ last.op = "add" /\ last.matched > 0 /\ last.matched < last.qty
  /\ Len(QueueAt(book, last.side, last.tick)) = 1
  /\ Len(book.levels) = 1 /\ book.free_levels = <<>>

(***************************************************************************)
(* C8: when add_order matches a positive quantity, trade_price is the      *)
(* tick-snapped price of the resting order of the final fill, the price of *)
(* the last opposite level consumed, not the incoming limit price.         *)
(***************************************************************************)
\* the opposite ticks whose queue the call changed
Consumed(b, b2, opp) ==
  {t \in DOMAIN LevelsMap(b, opp) : QueueAt(b2, opp, t) # QueueAt(b, opp, t)}

\* the resting order of the final fill: in the last level consumed, the
\* order left partially filled at the front, else the last one removed
FinalFilled(b, b2, opp, t) ==
  LET q  == QueueAt(b, opp, t)
      q2 == QueueAt(b2, opp, t)
      k  == Len(q) - Len(q2)
  IN IF q2 # <<>> /\ q2[1].qty < q[k + 1].qty THEN q[k + 1] ELSE q[k]

TradePriceOfFinalFill ==
  [][last'.op = "add" /\ last'.matched > 0 =>
       LET opp == Opp(last'.side)
           c   == Consumed(book, book', opp)
       IN /\ c # {}
          /\ LET t == IF opp = "SELL" THEN SetMax(c) ELSE SetMin(c)
             IN /\ trade_price' = FinalFilled(book, book', opp, t).price
                /\ trade_price' = t * inv_tick_]_vars

\* two opposite levels were consumed, the second only partially, and the
\* trade price is below the tick the incoming limit price rounds to
TradePriceOfFinalFillWitness ==
  /\ last.op = "add" /\ last.matched = 2 /\ last.side = "BUY"
  /\ trade_price # tick_to_price(last.tick)
  /\ book.best_ask_tick # None
  /\ tick_to_price(book.best_ask_tick[1]) = trade_price
  /\ Len(book.free_levels) = 1

(***************************************************************************)
(* C9: cancel_order(id) returns true iff an order with that id is resting  *)
(* in the book; when it returns false the levels, queues, index and best   *)
(* quotes are unchanged.                                                   *)
(***************************************************************************)
CancelTrueIffResting ==
  [][last'.op = "cancel" =>
       /\ last'.ok <=> (\E s \in HeapSlots(book) : OrderIn(book, s).id = last'.id)
       /\ ~last'.ok => book' = book]_vars

\* a cancel failed on a book that holds orders, after an earlier order had
\* been filled or cancelled away (a level is pooled)
CancelTrueIffRestingWitness ==
  /\ last.op = "cancel" /\ ~last.ok
  /\ index_size(book) >= 1 /\ book.free_levels # <<>>

(***************************************************************************)
(* C10: a successful cancel_order(id) removes exactly the order with that  *)
(* id: the other orders of its queue keep their order and quantities,      *)
(* every other level is unchanged, the index loses exactly that entry, and *)
(* the level is removed (and pooled) only if its queue became empty.       *)
(***************************************************************************)
CancelRemovesExactlyOne ==
  [][last'.op = "cancel" /\ last'.ok =>
       LET id   == last'.id
           side == book.index[id].side
           tick == book.index[id].tick
           lvl  == LevelsMap(book, side)[tick]
           q    == book.levels[lvl].q
           q2   == book'.levels[lvl].q
       IN /\ Len(book'.levels) = Len(book.levels)
          /\ q2 = Without(q, id) /\ Len(q2) = Len(q) - 1
          /\ \A l \in 1..Len(book.levels) : l # lvl => book'.levels[l] = book.levels[l]
          /\ DOMAIN book'.index = (DOMAIN book.index) \ {id}
          /\ index_size(book') = index_size(book) - 1
          /\ \A k \in DOMAIN book'.index : book'.index[k] = book.index[k]
          /\ LevelsMap(book', Opp(side)) = LevelsMap(book, Opp(side))
          /\ TicksVec(book', Opp(side)) = TicksVec(book, Opp(side))
          /\ IF q2 = <<>>
               THEN /\ LevelsMap(book', side) = erase(LevelsMap(book, side), tick)
                    /\ Count(TicksVec(book', side), tick) = 0
                    /\ book'.free_levels = Append(book.free_levels, lvl)
               ELSE /\ LevelsMap(book', side) = LevelsMap(book, side)
                    /\ TicksVec(book', side) = TicksVec(book, side)
                    /\ book'.free_levels = book.free_levels
                    /\ book'.best_bid_tick = book.best_bid_tick
                    /\ book'.best_ask_tick = book.best_ask_tick]_vars

\* the middle one of three orders of one level was cancelled
CancelRemovesExactlyOneWitness ==
  /\ last.op = "cancel" /\ last.ok
  /\ \E l \in 1..Len(book.levels) :
       /\ Len(book.levels[l].q) = 2
       /\ book.levels[l].q[1].ts_ns = 0
       /\ book.levels[l].q[2].ts_ns = 2


(***************************************************************************)
(* Calls that break add_order's input preconditions                        *)
(***************************************************************************)
\* bound on the number of calls of a run that may break a precondition
MisuseOps == 2

\* Order::qty is a plain int: a caller can pass zero or a negative quantity
BadQtys == {-1, 0}

\* add_order and cancel_order called with any id, resting or not, and any
\* quantity, positive or not
NextMisuse ==
  \/ \E id \in Ids, side \in Sides, px \in Prices, qty \in Qtys \cup BadQtys :
       now < MisuseOps /\ AddOrder(id, side, px, qty)
  \/ \E id \in Ids : now < MisuseOps /\ CancelOrder(id)

SpecMisuse == Init /\ [][NextMisuse]_vars

\* C11: an add_order call whose order has qty <= 0 is fatal: the call ends
\* in an abort and does not return.
NonPositiveQtyAborts ==
  (last.op = "add" /\ last.qty <= 0) => aborted

\* C12: every add_order call whose id is already in the index is fatal: the
\* call ends in an abort (stated for calls with a positive quantity, whose
\* only broken precondition is the id).
DuplicateIdAborts ==
  [][\A id \in Ids :
       (contains(book.index, id) /\ last'.op = "add" /\ last'.id = id
          /\ last'.qty > 0 /\ now' = now + 1)
       => aborted']_vars


(***************************************************************************)
(* FlatHashMap<uint64_t, V> with growth disabled: the table itself         *)
(***************************************************************************)
\* keys 1..MaxKey are inserted and erased
MaxKey == 7
\* number of insert/erase calls of a run
MapOps == 3

FKeys == 1..MaxKey
FVals == {1, 2}

\* the low four bits of hash_key(k) for k = 1..16, from the 64-bit mixer
\* (x ^= x >> 33; x *= 0xff51afd7ed558ccd; x ^= x >> 33;
\*  x *= 0xc4ceb9fe1a85ec53; x ^= x >> 33)
hash_key(k) == <<12, 7, 14, 5, 5, 3, 13, 7, 5, 13, 4, 5, 5, 12, 13, 4>>[k]

\* next_pow2: the smallest power of two >= x, and at least 8
RECURSIVE pow2_from(_, _)
pow2_from(p, x) == IF p >= x THEN p ELSE pow2_from(2 * p, x)

next_pow2(x) == IF x < 8 THEN 8 ELSE pow2_from(8, x)

npos == -1

\* reserve_pow2: every slot Empty, counters zero
reserve_pow2(cap_pow2) ==
  LET cap == next_pow2(cap_pow2)
  IN [table |-> [i \in 0..(cap - 1) |-> [key |-> 0, value |-> 0, state |-> "Empty"]],
      mask_ |-> cap - 1, size_ |-> 0, tombs_ |-> 0]

capacity(m) == m.mask_ + 1

\* hash_key(key) & mask_
home(m, k) == hash_key(k) % capacity(m)

\* find_index: linear probing from the home slot; stops at the first Empty
\* slot (npos) or at the Filled slot holding the key. n counts the slots
\* probed: a table without an Empty slot and without the key is probed
\* forever, which the model reports as npos after a full cycle.
RECURSIVE find_probe(_, _, _, _)
find_probe(m, k, idx, n) ==
  LET e == m.table[idx]
  IN IF n = capacity(m) \/ e.state = "Empty" THEN npos
     ELSE IF e.state = "Filled" /\ e.key = k THEN idx
     ELSE find_probe(m, k, (idx + 1) % capacity(m), n + 1)

find_index(m, k) == find_probe(m, k, home(m, k), 0)

\* find_ptr: None for nullptr, Some(value) otherwise
find_ptr(m, k) ==
  LET idx == find_index(m, k)
  IN IF idx = npos THEN None ELSE Some(m.table[idx].value)

FlatHashMap_contains(m, k) == find_index(m, k) # npos

\* seeded fault: erase does not decrement size_
FlatHashMap_erase_keeps_size(m, k) ==
  LET idx == find_index(m, k)
  IN IF idx = npos THEN [m |-> m, ret |-> FALSE]
     ELSE [m |-> [m EXCEPT !.table[idx].state = "Tomb",
                           !.tombs_ = @ + 1],
           ret |-> TRUE]

\* erase: the slot becomes a tombstone; key and value stay in the slot
FlatHashMap_erase(m, k) ==
  LET idx == find_index(m, k)
  IN IF idx = npos THEN [m |-> m, ret |-> FALSE]
     ELSE [m |-> [m EXCEPT !.table[idx].state = "Tomb",
                           !.size_ = @ - 1, !.tombs_ = @ + 1],
           ret |-> TRUE]

\* the load test shared by emplace_impl and rehash_same_capacity
over_capacity(size, tombs, cap) == (size + tombs) * 10 >= cap * 8

\* the trigger of maybe_compact_for_tombs
\* seeded fault: compaction waits for the 80% load of the capacity test
needs_compact_late(size, tombs, cap) ==
  tombs # 0 /\ (tombs > cap \div 4 \/ (size + tombs) * 10 >= cap * 8)

needs_compact(size, tombs, cap) ==
  tombs # 0 /\ (tombs > cap \div 4 \/ (size + tombs) * 10 >= cap * 7)

\* the first Empty slot of scratch at or after idx
RECURSIVE scratch_probe(_, _, _)
scratch_probe(scratch, idx, cap) ==
  IF scratch[idx].state = "Empty" THEN idx
  ELSE scratch_probe(scratch, (idx + 1) % cap, cap)

\* the loop of rehash_same_capacity over table_[i..cap-1]
RECURSIVE rehash_from(_, _, _)
rehash_from(m, scratch, i) ==
  IF i = capacity(m) THEN scratch
  ELSE LET e == m.table[i]
       IN IF e.state # "Filled" THEN rehash_from(m, scratch, i + 1)
          ELSE LET idx == scratch_probe(scratch, home(m, e.key), capacity(m))
               IN rehash_from(m,
                    [scratch EXCEPT ![idx] = [key |-> e.key, value |-> e.value,
                                              state |-> "Filled"]],
                    i + 1)

\* seeded fault: the rehash keeps the old slot of every entry
rehash_in_place(m) ==
  LET t == [i \in DOMAIN m.table |->
              IF m.table[i].state = "Filled" THEN m.table[i]
              ELSE [key |-> 0, value |-> 0, state |-> "Empty"]]
      m2 == [m EXCEPT !.table = t, !.tombs_ = 0]
  IN [m |-> m2, dead |-> over_capacity(m2.size_, m2.tombs_, capacity(m))]

\* rehash_same_capacity: the Filled entries are re-inserted, in table order,
\* into the all-Empty scratch table, which becomes the table; dead when the
\* capacity test after it fails. The key and value of a slot that is not
\* Filled are never read: the scratch slots carry zeros.
rehash_same_capacity(m) ==
  LET empty == [i \in DOMAIN m.table |-> [key |-> 0, value |-> 0, state |-> "Empty"]]
      t == rehash_from(m, empty, 0)
      new_size == Cardinality({i \in DOMAIN t : t[i].state = "Filled"})
      m2 == [m EXCEPT !.table = t, !.size_ = new_size, !.tombs_ = 0]
  IN [m |-> m2, dead |-> over_capacity(m2.size_, m2.tombs_, capacity(m))]

maybe_compact_for_tombs(m) ==
  IF needs_compact(m.size_, m.tombs_, capacity(m))
  THEN LET r == rehash_same_capacity(m)
       IN [m |-> r.m, dead |-> r.dead, rehashed |-> TRUE]
  ELSE [m |-> m, dead |-> FALSE, rehashed |-> FALSE]

\* the probe loop of emplace_impl from slot idx, first_tomb being the first
\* tombstone met so far (npos if none): at an Empty slot the entry is written
\* into first_tomb if there is one, else into the Empty slot
RECURSIVE emplace_probe(_, _, _, _, _, _)
emplace_probe(m, k, v, idx, first_tomb, n) ==
  LET e == m.table[idx]
  IN IF n = capacity(m) THEN [m |-> m, ret |-> FALSE, reused |-> FALSE, hang |-> TRUE]
     ELSE IF e.state = "Empty"
     THEN LET ins == IF first_tomb # npos THEN first_tomb ELSE idx
          IN [m |-> [m EXCEPT !.table[ins] = [key |-> k, value |-> v, state |-> "Filled"],
                              !.size_ = @ + 1,
                              !.tombs_ = IF first_tomb # npos THEN @ - 1 ELSE @],
              ret |-> TRUE, reused |-> first_tomb # npos, hang |-> FALSE]
     ELSE IF e.state = "Tomb"
     THEN emplace_probe(m, k, v, (idx + 1) % capacity(m),
                        IF first_tomb = npos THEN idx ELSE first_tomb, n + 1)
     ELSE IF e.key = k
     THEN [m |-> m, ret |-> FALSE, reused |-> FALSE, hang |-> FALSE]
     ELSE emplace_probe(m, k, v, (idx + 1) % capacity(m), first_tomb, n + 1)

\* emplace_impl with allow_grow_ false: compaction, the capacity test, then
\* the probe. dead: die_capacity() was reached; rehashed: the table was
\* rehashed; reused: the entry went into a tombstone; hang: the probe loop
\* met neither the key nor an Empty slot and does not end.
emplace_impl(m, k, v) ==
  LET c == maybe_compact_for_tombs(m)
      dead == c.dead \/ over_capacity(c.m.size_, c.m.tombs_, capacity(c.m))
  IN IF dead
     THEN [m |-> c.m, ret |-> FALSE, dead |-> TRUE, rehashed |-> c.rehashed,
           reused |-> FALSE, hang |-> FALSE]
     ELSE LET r == emplace_probe(c.m, k, v, home(c.m, k), npos, 0)
          IN [m |-> r.m, ret |-> r.ret, dead |-> FALSE, rehashed |-> c.rehashed,
              reused |-> r.reused, hang |-> r.hang]

FlatHashMap_insert(m, k, v) == emplace_impl(m, k, v)

(***************************************************************************)
(* A FlatHashMap driven by insert and erase calls                          *)
(***************************************************************************)
\* the map after insert(1, 1), ..., insert(n, 1) on a new map of capacity 8
RECURSIVE Prefill(_)
Prefill(n) ==
  IF n = 0 THEN reserve_pow2(8) ELSE emplace_impl(Prefill(n - 1), n, 1).m

NoMapCall == [op |-> "none", key |-> 0, value |-> 0, ret |-> FALSE,
              rehashed |-> FALSE, reused |-> FALSE, hang |-> FALSE]

\* a run starts from a map that holds the keys 1..n, n small enough for the
\* n inserts to pass the capacity test
MapInit ==
  /\ \E n \in 0..MaxKey :
       /\ \A j \in 0..(n - 1) : ~over_capacity(j, 0, 8)
       /\ fmap = Prefill(n)
       /\ fabs = [k \in 1..n |-> 1]
  /\ flast = NoMapCall
  /\ fops = 0
  /\ fdead = FALSE

MapInsert(k, v) ==
  /\ ~fdead
  /\ fops < MapOps
  /\ LET r == FlatHashMap_insert(fmap, k, v)
     IN /\ fmap' = r.m
        /\ fdead' = r.dead
        /\ fabs' = IF r.dead THEN fabs ELSE insert(fabs, k, v).m
        /\ flast' = [op |-> "insert", key |-> k, value |-> v, ret |-> r.ret,
                     rehashed |-> r.rehashed, reused |-> r.reused,
                     hang |-> r.hang]
  /\ fops' = fops + 1
  /\ UNCHANGED notMap

MapErase(k) ==
  /\ ~fdead
  /\ fops < MapOps
  /\ LET r == FlatHashMap_erase(fmap, k)
     IN /\ fmap' = r.m
        /\ fabs' = erase(fabs, k)
        /\ flast' = [op |-> "erase", key |-> k, value |-> 0, ret |-> r.ret,
                     rehashed |-> FALSE, reused |-> FALSE, hang |-> FALSE]
  /\ fops' = fops + 1
  /\ UNCHANGED <<fdead, notMap>>

NextMap ==
  \/ \E k \in FKeys, v \in FVals : MapInsert(k, v)
  \/ \E k \in FKeys : MapErase(k)

InitMap == MapInit /\ Others("map")

SpecMap == InitMap /\ [][NextMap]_vars

(***************************************************************************)
(* C14: the FlatHashMap refines a finite map: in every state a lookup of   *)
(* any key hits exactly when the key was inserted and not erased since,    *)
(* and then yields the value it was inserted with; a key never inserted,   *)
(* or erased, misses. insert returns true exactly for an absent key and    *)
(* erase returns true exactly for a present one.                           *)
(***************************************************************************)
HashMapRefinesMap ==
  /\ \A k \in FKeys :
       find_ptr(fmap, k) = IF contains(fabs, k) THEN Some(fabs[k]) ELSE None
  /\ fmap.size_ = Cardinality(DOMAIN fabs)
  /\ (flast.op = "erase") => find_ptr(fmap, flast.key) = None
  /\ (flast.op = "insert" /\ ~fdead) => contains(fabs, flast.key)

\* an insert has just reused a tombstone while another tombstone remains and
\* a live key sits away from its home slot
HashMapRefinesMapWitness ==
  /\ flast.op = "insert" /\ flast.reused
  /\ fmap.tombs_ > 0
  /\ \E k \in DOMAIN fabs : find_index(fmap, k) # home(fmap, k)

\* C15: insert(k, v) of a key that is present returns false and mutates
\* nothing: value, size, tombstone count and slots are as before the call.
DuplicateInsertMutatesNothing ==
  [][(flast'.op = "insert" /\ fops' = fops + 1 /\ contains(fabs, flast'.key))
       => (~fdead' /\ ~flast'.ret /\ fmap' = fmap)]_vars

kLevelCap == 2048
kIndexCap == 16384

\* bound on the number of cancels of a run
LoadErases == 2

\* the counters after emplace_impl of an absent key on a map of capacity
\* cap; reuse: the probe met a tombstone before the Empty slot
emplace_load(c, cap, reuse) ==
  LET tombs1 == IF needs_compact(c.size_, c.tombs_, cap) THEN 0 ELSE c.tombs_
  IN IF over_capacity(c.size_, tombs1, cap)
     THEN [c |-> [size_ |-> c.size_, tombs_ |-> tombs1], dead |-> TRUE]
     ELSE [c |-> [size_ |-> c.size_ + 1,
                  tombs_ |-> IF reuse /\ tombs1 > 0 THEN tombs1 - 1 ELSE tombs1],
           dead |-> FALSE]

\* the counters after erase of a present key
erase_load(c) == [size_ |-> c.size_ - 1, tombs_ |-> c.tombs_ + 1]

LoadInit ==
  /\ levels_load = [size_ |-> 0, tombs_ |-> 0]
  /\ index_load = [size_ |-> 0, tombs_ |-> 0]
  /\ load_erases = 0
  /\ load_dead = FALSE
  /\ Others("load")

\* add_order of a buy order that does not cross and rests at a tick that has
\* no level: get_or_create_level inserts into bid_levels_ (abort on
\* failure), then the order is indexed
LoadAddAtNewTick(reuse_l, reuse_i) ==
  /\ ~load_dead
  /\ LET l == emplace_load(levels_load, next_pow2(kLevelCap), reuse_l)
         i == emplace_load(index_load, next_pow2(kIndexCap), reuse_i)
     IN IF l.dead
        THEN /\ levels_load' = l.c
             /\ load_dead' = TRUE
             /\ UNCHANGED index_load
        ELSE /\ levels_load' = l.c
             /\ index_load' = i.c
             /\ load_dead' = i.dead
  /\ UNCHANGED <<load_erases, notLoad>>

\* cancel_order of a resting order: erased from index_, and its level, now
\* empty, erased from bid_levels_
LoadCancel ==
  /\ ~load_dead
  /\ load_erases < LoadErases
  /\ index_load.size_ > 0
  /\ index_load' = erase_load(index_load)
  /\ levels_load' = erase_load(levels_load)
  /\ load_erases' = load_erases + 1
  /\ UNCHANGED <<load_dead, notLoad>>

NextLoad ==
  \/ \E reuse_l \in BOOLEAN, reuse_i \in BOOLEAN :
       LoadAddAtNewTick(reuse_l, reuse_i)
  \/ LoadCancel

SpecLoad == LoadInit /\ [][NextLoad]_vars

\* C13: add_order never aborts for capacity while the distinct ticks of a
\* side stay within kLevelCap and the resting orders within kIndexCap: an
\* abort in die_capacity() means the order would have been tick number
\* kLevelCap + 1 of its side or resting order number kIndexCap + 1.
CapacityAbortOnlyBeyondCaps ==
  load_dead => \/ levels_load.size_ + 1 > kLevelCap
               \/ index_load.size_ + 1 > kIndexCap

(***************************************************************************)
(* SpscRing<T, Capacity>: one producer thread calling try_push, one        *)
(* consumer thread calling try_pop. Every load and store of a cursor is a  *)
(* step of its own; the construction of a slot's object and its            *)
(* move-out-and-destroy each begin in one step and end in another, so that *)
(* overlapping accesses to a slot show up as states.                       *)
(***************************************************************************)
\* Capacity is 2^CapBits
CapBits == 1
\* the producer pushes the values 1..MaxPush, in this order
MaxPush == 4

Capacity == 2 ^ CapBits
kMask == Capacity - 1

\* seeded fault: every cursor maps to the first slot
ptr_at_first(idx) == 0

\* ptr_at: the slot of cursor idx, idx & kMask
ptr_at(idx) == idx % (kMask + 1)

\* seeded fault: the ring counts as full one element late
is_full_late(head, tail) == (head - tail) = Capacity + 1

\* seeded fault: the ring always counts as full
is_full_always(head, tail) == (head - tail) >= 0

\* the full test of emplace_impl
is_full(head, tail) == (head - tail) = Capacity

\* seeded fault: the ring counts as empty while one element is left
is_empty_early(tail, head) == tail = head \/ tail + 1 = head

\* the empty test of try_pop
is_empty(tail, head) == tail = head

\* seeded fault: a relaxed store releases nothing new
store_relaxed(released, value) == released

\* store(value, memory_order_release) by the only writer of a cursor: every
\* slot access the thread made for the cursors below value happens before
\* whatever an acquire load of value is followed by
store_release(released, value) == value

raw == [state |-> "raw", v |-> 0]

SpscRing_new == [i \in 0..(Capacity - 1) |-> raw]

RingInit ==
  /\ head_ = 0
  /\ tail_ = 0
  /\ buf_ = SpscRing_new
  /\ prod = [pc |-> "idle", head |-> 0, tail |-> 0, sync |-> 0, i |-> 1,
             ret |-> FALSE]
  /\ cons = [pc |-> "idle", tail |-> 0, head |-> 0, sync |-> 0, out |-> 0,
             ret |-> FALSE]
  /\ got = <<>>
  /\ hb = [head_rel |-> 0, tail_rel |-> 0, overwrote |-> FALSE]
  /\ Others("ring")

\* try_push(i) is called; head_.load(relaxed)
PushLoadHead ==
  /\ prod.pc = "idle"
  /\ prod.i <= MaxPush
  /\ prod' = [prod EXCEPT !.pc = "load_tail", !.head = head_]
  /\ UNCHANGED <<head_, tail_, buf_, cons, got, hb, notRing>>

\* tail_.load(acquire) and the full test: return false, or go on
PushLoadTail ==
  /\ prod.pc = "load_tail"
  /\ prod' = IF is_full(prod.head, tail_)
             THEN [prod EXCEPT !.pc = "idle", !.tail = tail_,
                               !.sync = hb.tail_rel, !.ret = FALSE]
             ELSE [prod EXCEPT !.pc = "construct", !.tail = tail_,
                               !.sync = hb.tail_rel]
  /\ UNCHANGED <<head_, tail_, buf_, cons, got, hb, notRing>>

\* placement new at ptr_at(head) begins
PushConstruct ==
  /\ prod.pc = "construct"
  /\ LET s == ptr_at(prod.head)
     IN /\ hb' = [hb EXCEPT !.overwrote = @ \/ buf_[s].state # "raw"]
        /\ buf_' = [buf_ EXCEPT ![s] = [state |-> "partial", v |-> 0]]
  /\ prod' = [prod EXCEPT !.pc = "constructing"]
  /\ UNCHANGED <<head_, tail_, cons, got, notRing>>

\* placement new at ptr_at(head) ends: the slot holds T(v)
PushConstructed ==
  /\ prod.pc = "constructing"
  /\ buf_' = [buf_ EXCEPT ![ptr_at(prod.head)] = [state |-> "live", v |-> prod.i]]
  /\ prod' = [prod EXCEPT !.pc = "store_head"]
  /\ UNCHANGED <<head_, tail_, cons, got, hb, notRing>>

\* head_.store(head + 1, release); return true
PushStoreHead ==
  /\ prod.pc = "store_head"
  /\ head_' = prod.head + 1
  /\ hb' = [hb EXCEPT !.head_rel = store_release(@, prod.head + 1)]
  /\ prod' = [prod EXCEPT !.pc = "idle", !.ret = TRUE, !.i = @ + 1]
  /\ UNCHANGED <<tail_, buf_, cons, got, notRing>>

\* try_pop(out) is called, while the consumer has fewer than MaxPush values;
\* tail_.load(relaxed)
PopLoadTail ==
  /\ cons.pc = "idle"
  /\ Len(got) < MaxPush
  /\ cons' = [cons EXCEPT !.pc = "load_head", !.tail = tail_]
  /\ UNCHANGED <<head_, tail_, buf_, prod, got, hb, notRing>>

\* head_.load(acquire) and the empty test: return false, or go on
PopLoadHead ==
  /\ cons.pc = "load_head"
  /\ cons' = IF is_empty(cons.tail, head_)
             THEN [cons EXCEPT !.pc = "idle", !.head = head_,
                               !.sync = hb.head_rel, !.ret = FALSE]
             ELSE [cons EXCEPT !.pc = "move", !.head = head_,
                               !.sync = hb.head_rel]
  /\ UNCHANGED <<head_, tail_, buf_, prod, got, hb, notRing>>

\* out = std::move(*ptr): the value of the object in the slot; a slot
\* without a fully constructed object yields any value at all
PopMove ==
  /\ cons.pc = "move"
  /\ LET s == ptr_at(cons.tail)
     IN /\ \E x \in 0..MaxPush :
             /\ buf_[s].state = "live" => x = buf_[s].v
             /\ cons' = [cons EXCEPT !.pc = "destroy", !.out = x]
        /\ buf_' = [buf_ EXCEPT ![s] = [state |-> "moved", v |-> 0]]
  /\ UNCHANGED <<head_, tail_, prod, got, hb, notRing>>

\* ptr->~T(): the slot is raw storage again
PopDestroy ==
  /\ cons.pc = "destroy"
  /\ buf_' = [buf_ EXCEPT ![ptr_at(cons.tail)] = raw]
  /\ cons' = [cons EXCEPT !.pc = "store_tail"]
  /\ UNCHANGED <<head_, tail_, prod, got, hb, notRing>>

\* tail_.store(tail + 1, release); return true; the caller keeps out
PopStoreTail ==
  /\ cons.pc = "store_tail"
  /\ tail_' = cons.tail + 1
  /\ hb' = [hb EXCEPT !.tail_rel = store_release(@, cons.tail + 1)]
  /\ cons' = [cons EXCEPT !.pc = "idle", !.ret = TRUE]
  /\ got' = Append(got, cons.out)
  /\ UNCHANGED <<head_, buf_, prod, notRing>>

NextRing ==
  \/ PushLoadHead
  \/ PushLoadTail
  \/ PushConstruct
  \/ PushConstructed
  \/ PushStoreHead
  \/ PopLoadTail
  \/ PopLoadHead
  \/ PopMove
  \/ PopDestroy
  \/ PopStoreTail

SpecRing == RingInit /\ [][NextRing]_vars

(***************************************************************************)
(* C17: with one producer and one consumer the popped sequence is the      *)
(* pushed sequence: the values popped so far are 1, 2, ... in this order,  *)
(* each pushed before (no duplicate, no reordering), and every value       *)
(* pushed and not yet popped sits in the ring, in order, from tail_ to     *)
(* head_ (no loss); once all MaxPush values are pushed and the ring is     *)
(* empty the consumer has exactly 1..MaxPush.                              *)
(***************************************************************************)
SpscFifo ==
  /\ \A j \in 1..Len(got) : got[j] = j
  /\ Len(got) = tail_
  /\ head_ = prod.i - 1
  /\ tail_ <= head_
  /\ \A k \in tail_..(head_ - 1) :
       IF k = tail_ /\ cons.pc \in {"destroy", "store_tail"}
       THEN cons.out = k + 1
       ELSE buf_[ptr_at(k)] = [state |-> "live", v |-> k + 1]
  /\ (prod.i > MaxPush /\ head_ = tail_) => got = [j \in 1..MaxPush |-> j]

\* the consumer holds all MaxPush values, more than the ring has slots
SpscFifoWitness ==
  /\ Len(got) = MaxPush
  /\ MaxPush > Capacity
  /\ got[MaxPush] = MaxPush

(***************************************************************************)
(* C18: try_push returns false exactly when, at its load of tail_, the     *)
(* ring holds Capacity elements (head_ - tail_ = Capacity), and then       *)
(* leaves cursors and slots unchanged; otherwise it stores the element in  *)
(* the slot of head_, advances head_ by one and returns true. Always       *)
(* 0 <= head_ - tail_ <= Capacity, and no slot holding an object is        *)
(* constructed over.                                                       *)
(***************************************************************************)
PushFalseIffFull ==
  [][/\ (prod.pc = "load_tail" /\ prod'.pc # "load_tail") =>
          /\ (prod'.pc = "idle" /\ ~prod'.ret) <=> (head_ - tail_ = Capacity)
          /\ prod'.pc # "idle" => prod'.pc = "construct"
          /\ UNCHANGED <<head_, tail_, buf_>>
     /\ (prod.pc = "store_head" /\ prod'.pc = "idle") =>
          /\ prod'.ret
          /\ head_' = head_ + 1
          /\ buf_'[ptr_at(head_)] = [state |-> "live", v |-> prod.i]
     /\ 0 <= head_' - tail_' /\ head_' - tail_' <= Capacity
     /\ ~hb'.overwrote]_vars

\* a try_push has just returned false on a ring that still holds Capacity
\* elements, after earlier pushes had succeeded
PushFalseIffFullWitness ==
  /\ prod.pc = "idle" /\ ~prod.ret /\ prod.i > Capacity
  /\ head_ - tail_ = Capacity

(***************************************************************************)
(* C19: try_pop returns false exactly when, at its load of head_, the ring *)
(* is empty (tail_ = head_), and then leaves out, cursors and slots        *)
(* unchanged; otherwise it moves the oldest element into out, destroys it  *)
(* in the slot, advances tail_ by one and returns true.                    *)
(***************************************************************************)
PopFalseIffEmpty ==
  [][/\ (cons.pc = "load_head" /\ cons'.pc # "load_head") =>
          /\ (cons'.pc = "idle" /\ ~cons'.ret) <=> (tail_ = head_)
          /\ cons'.pc # "idle" => cons'.pc = "move"
          /\ cons'.out = cons.out
          /\ UNCHANGED <<head_, tail_, buf_>>
     /\ (cons.pc = "store_tail" /\ cons'.pc = "idle") =>
          /\ cons'.ret
          /\ tail_' = tail_ + 1
          /\ cons'.out = tail_ + 1
          /\ got' = Append(got, tail_ + 1)
          /\ buf_'[ptr_at(tail_)].state = "raw"]_vars

\* a try_pop has just returned false on the empty ring after the consumer
\* had popped every value pushed so far
PopFalseIffEmptyWitness ==
  /\ cons.pc = "idle" /\ ~cons.ret /\ cons.head > 0
  /\ tail_ = head_ /\ Len(got) > 0

(***************************************************************************)
(* C20: in every state of every interleaving: the producer constructs in a *)
(* slot only when the destruction of the slot's previous object happens    *)
(* before, through the consumer's release store of tail_ and the           *)
(* producer's acquire load; the consumer moves out of a slot only when the *)
(* construction of its object happens before, through the producer's       *)
(* release store of head_ and the consumer's acquire load; no slot is      *)
(* under construction while it is being moved out and destroyed; and the   *)
(* value a try_pop moves out is the fully constructed value of the         *)
(* matching try_push.                                                      *)
(***************************************************************************)
SlotHandOver ==
  /\ prod.pc \in {"construct", "constructing"} => prod.head - Capacity < prod.sync
  /\ cons.pc \in {"move", "destroy"} => cons.tail < cons.sync
  /\ ~(/\ prod.pc = "constructing"
       /\ cons.pc = "destroy"
       /\ ptr_at(prod.head) = ptr_at(cons.tail))
  /\ cons.pc = "move" => buf_[ptr_at(cons.tail)] = [state |-> "live", v |-> cons.tail + 1]
  /\ cons.pc \in {"destroy", "store_tail"} => cons.out = cons.tail + 1
  /\ ~hb.overwrote

\* the producer is constructing in one slot while the consumer destroys the
\* object of the other, both on a later lap of the ring
SlotHandOverWitness ==
  /\ prod.pc = "constructing"
  /\ cons.pc = "destroy"
  /\ cons.tail >= Capacity
  /\ ptr_at(prod.head) # ptr_at(cons.tail)

(***************************************************************************)
(* The two loops of test_threaded_ordering under a fair scheduler: each    *)
(* thread that can take a step eventually takes one.                       *)
(***************************************************************************)
Producer ==
  PushLoadHead \/ PushLoadTail \/ PushConstruct \/ PushConstructed \/ PushStoreHead

Consumer ==
  PopLoadTail \/ PopLoadHead \/ PopMove \/ PopDestroy \/ PopStoreTail

SpecRingFair == SpecRing /\ WF_vars(Producer) /\ WF_vars(Consumer)

\* both loops have ended: every value is pushed, the consumer has MaxPush
\* values and neither thread is inside a call
RingLoopsDone ==
  /\ prod.pc = "idle" /\ prod.i > MaxPush
  /\ cons.pc = "idle" /\ Len(got) = MaxPush

\* C21: with a producer that retries try_push until each of the MaxPush
\* values is pushed and a consumer that retries try_pop until it has MaxPush
\* values, under fair scheduling of both threads both loops end and the
\* consumer has received all the values, 1..MaxPush.
RingLoopsTerminate ==
  <>(RingLoopsDone /\ got = [j \in 1..MaxPush |-> j])

\* both loops have ended after the producer's last call had to be retried
\* (its load of tail_ dates from before the consumer's last pops)
RingLoopsTerminateWitness ==
  /\ RingLoopsDone
  /\ prod.ret
  /\ prod.tail < tail_
  /\ cons.ret

(***************************************************************************)
(* uint64_t as its 64 bits, bit 0 the least significant                    *)
(***************************************************************************)
Bits64 == 0..63

\* the uint64_t of a small natural number x (x < 2^30)
u64(x) == [b \in Bits64 |-> IF b < 30 THEN (x \div (2 ^ b)) % 2 ELSE 0]

\* x << k
shl(x, k) == [b \in Bits64 |-> IF b >= k THEN x[b - k] ELSE 0]

\* x | y
bor(x, y) == [b \in Bits64 |-> IF x[b] = 1 \/ y[b] = 1 THEN 1 ELSE 0]

(***************************************************************************)
(* Simulator::run_mt: the thread count, the partition of the symbols into  *)
(* per-thread contexts, the worker loops and the join. What a book answers *)
(* to add_order and cancel_order is left open: an add may rest or not, a   *)
(* cancel may succeed or not.                                              *)
(***************************************************************************)
\* syms_ holds 1..MaxSyms symbols
MaxSyms == 4
\* cfg_.num_threads is 0..MaxThreads
MaxThreads == 3
\* std::thread::hardware_concurrency() is 0..MaxHw (0: not computable)
MaxHw == 2
\* cfg_.total_events is at most MaxEvents
MaxEvents == 3

Min(a, b) == IF a < b THEN a ELSE b
Max(a, b) == IF a > b THEN a ELSE b

\* n_threads of run_mt
n_threads_of(num_threads, n_symbols, hw) ==
  LET n == IF num_threads > 0 THEN num_threads ELSE Min(n_symbols, hw)
  IN Max(1, Min(n, n_symbols))

per_thread_of(n_symbols, n_threads) == (n_symbols + n_threads - 1) \div n_threads

\* idx at the start of round t of the context loop: the end of round t - 1
RECURSIVE ctx_start(_, _, _)
ctx_start(t, per_thread, n_symbols) ==
  IF t = 0 THEN 0
  ELSE Min(ctx_start(t - 1, per_thread, n_symbols) + per_thread, n_symbols)

\* the ThreadContext built for thread t: its symbols are all_syms[start..end)
\* (symbols are named by their index in all_syms) and it owns one new
\* OrderBook per symbol. OrderBook objects are numbered in the order they
\* are made: 1..n_symbols are the books of syms_, made by the constructor.
build_context(t, per_thread, n_symbols) ==
  LET start == ctx_start(t, per_thread, n_symbols)
      end == Min(start + per_thread, n_symbols)
  IN [symbols |-> [i \in 1..(end - start) |-> start + i - 1],
      books |-> [i \in 1..(end - start) |-> n_symbols + start + i],
      live |-> [i \in 1..(end - start) |-> 0]]

\* the context worker t works on
\* seeded fault: every worker works on the first context
worker_context_first(t) == 0

worker_context(t) == t

\* iters of worker t
iters_of(t, total_events, n_threads) ==
  (total_events \div n_threads)
    + (IF t = n_threads - 1 THEN total_events % n_threads ELSE 0)

\* (uint64_t(t) << 56) | local_id
\* seeded fault: the thread number is not part of the id
order_id_local_only(t, local_id) == u64(local_id)

order_id(t, local_id) == bor(shl(u64(t), 56), u64(local_id))

\* make_ts with realtime_ts false: (uint64_t(thread_id) << 48) | i_event
\* seeded fault: the thread number is shifted out of the word
make_ts_shifted_out(i_event, thread_id) == bor(shl(u64(thread_id), 64), u64(i_event))

make_ts(i_event, thread_id) == bor(shl(u64(thread_id), 48), u64(i_event))

Threads == 0..(Cardinality(DOMAIN contexts) - 1)

\* a Simulator whose syms_ holds n_symbols symbols, on a machine whose
\* hardware_concurrency() is hw, before run_mt is called
MtInit ==
  /\ \E n_symbols \in 1..MaxSyms, num_threads \in 0..MaxThreads,
        hw \in 0..MaxHw, total_events \in 0..MaxEvents :
       cfg_ = [n_symbols |-> n_symbols, num_threads |-> num_threads,
               hw |-> hw, total_events |-> total_events, realtime_ts |-> FALSE]
  /\ contexts = None
  /\ workers = None
  /\ touched = None
  /\ joined = FALSE
  /\ Others("mt")

\* run_mt up to the start of the workers: the contexts are built and one
\* thread per context is created
RunMtStart ==
  /\ contexts = None
  /\ LET n_threads == n_threads_of(cfg_.num_threads, cfg_.n_symbols, cfg_.hw)
         per_thread == per_thread_of(cfg_.n_symbols, n_threads)
     IN /\ contexts' = [t \in 0..(n_threads - 1) |->
                          build_context(t, per_thread, cfg_.n_symbols)]
        /\ workers' = [t \in 0..(n_threads - 1) |->
                         [pc |-> "start", i |-> 0, iters |-> 0, local_id |-> 1,
                          ids |-> <<>>, stamps |-> <<>>]]
        /\ touched' = [ctx |-> [t \in 0..(n_threads - 1) |-> {}],
                       book |-> [b \in 1..(2 * cfg_.n_symbols) |-> {}]]
  /\ UNCHANGED <<cfg_, joined, notMt>>

\* worker t from its first line to the head of its loop
WorkerStart(t) ==
  /\ contexts # None
  /\ t \in Threads
  /\ workers[t].pc = "start"
  /\ LET c == worker_context(t)
     IN /\ touched' = [touched EXCEPT !.ctx[c] = @ \cup {t}]
        /\ IF Len(contexts[c].symbols) = 0
             THEN workers' = [workers EXCEPT ![t].pc = "done"]
             ELSE workers' = [workers EXCEPT
                    ![t].pc = "loop",
                    ![t].iters = iters_of(t, cfg_.total_events,
                                          Cardinality(Threads))]
  /\ UNCHANGED <<cfg_, contexts, joined, notMt>>

\* one round of worker t's loop on the symbol at place si of its context:
\* an add (rests: a part of the order stays in the book) or, when do_add is
\* false and the symbol has live ids, a cancel (ok: the book knew the id)
WorkerIterate(t, si, do_add, rests, ok) ==
  /\ contexts # None
  /\ t \in Threads
  /\ workers[t].pc = "loop"
  /\ workers[t].i < workers[t].iters
  /\ LET c == worker_context(t)
         w == workers[t]
         i == w.i
     IN /\ si \in 1..Len(contexts[c].symbols)
        /\ touched' = [touched EXCEPT !.ctx[c] = @ \cup {t},
                                      !.book[contexts[c].books[si]] = @ \cup {t}]
        /\ IF do_add \/ contexts[c].live[si] = 0
             THEN /\ workers' = [workers EXCEPT
                        ![t].i = i + 1,
                        ![t].local_id = w.local_id + 1,
                        ![t].ids = Append(w.ids, order_id(t, w.local_id)),
                        ![t].stamps = Append(w.stamps, <<i, make_ts(i, t)>>)]
                  /\ contexts' = [contexts EXCEPT ![c].live[si] =
                                    IF rests THEN @ + 1 ELSE @]
             ELSE /\ workers' = [workers EXCEPT
                        ![t].i = i + 1,
                        ![t].stamps = IF ok THEN Append(w.stamps, <<i, make_ts(i, t)>>)
                                      ELSE w.stamps]
                  /\ contexts' = [contexts EXCEPT ![c].live[si] = @ - 1]
  /\ UNCHANGED <<cfg_, joined, notMt>>

\* worker t leaves its loop and returns
WorkerReturn(t) ==
  /\ contexts # None
  /\ t \in Threads
  /\ workers[t].pc = "loop"
  /\ workers[t].i >= workers[t].iters
  /\ workers' = [workers EXCEPT ![t].pc = "done"]
  /\ UNCHANGED <<cfg_, contexts, touched, joined, notMt>>

\* every th.join() has returned
JoinAll ==
  /\ contexts # None
  /\ ~joined
  /\ \A t \in Threads : workers[t].pc = "done"
  /\ joined' = TRUE
  /\ UNCHANGED <<cfg_, contexts, workers, touched, notMt>>

NextMt ==
  \/ RunMtStart
  \/ \E t \in 0..(MaxThreads - 1) : WorkerStart(t)
  \/ \E t \in 0..(MaxThreads - 1), si \in 1..MaxSyms, do_add, rests, ok \in BOOLEAN :
       WorkerIterate(t, si, do_add, rests, ok)
  \/ \E t \in 0..(MaxThreads - 1) : WorkerReturn(t)
  \/ JoinAll

SpecMt == MtInit /\ [][NextMt]_vars

\* the threads that have touched anything of context c, and of book b
ctx_users(c) == touched.ctx[c]
book_users(b) == touched.book[b]

\* C22: during run_mt every context (arena, RNG, Gaussian sampler, mid array,
\* live-id lists) and every order book is used by at most one worker thread,
\* the one the context was built for; two contexts never hold the same book,
\* and the books of syms_ are not used at all.
OneWorkerPerBook ==
  contexts # None =>
    /\ \A c \in Threads : ctx_users(c) \subseteq {c}
    /\ \A c \in Threads : \A k \in 1..Len(contexts[c].books) :
         book_users(contexts[c].books[k]) \subseteq {c}
    /\ \A b \in DOMAIN touched.book : Cardinality(book_users(b)) <= 1
    /\ \A c, d \in Threads : \A k \in 1..Len(contexts[c].books) :
         \A l \in 1..Len(contexts[d].books) :
           contexts[c].books[k] = contexts[d].books[l] => (c = d /\ k = l)
    /\ \A b \in 1..cfg_.n_symbols : book_users(b) = {}

\* two workers have each worked on a book, and one of them on two books
OneWorkerPerBookWitness ==
  /\ contexts # None
  /\ \E c, d \in Threads :
       /\ c # d
       /\ \E k \in 1..Len(contexts[c].books), l \in 1..Len(contexts[c].books) :
            /\ k # l
            /\ book_users(contexts[c].books[k]) = {c}
            /\ book_users(contexts[c].books[l]) = {c}
       /\ \E k \in 1..Len(contexts[d].books) :
            book_users(contexts[d].books[k]) = {d}

\* the symbols of context c, as a set
ctx_symbols(c) == {contexts[c].symbols[k] : k \in 1..Len(contexts[c].symbols)}

\* C23: the contexts are contiguous chunks of ceil(n_symbols / T) symbols,
\* every symbol is in exactly one context, the last context holds what is
\* left, and no context is empty.
ChunksCoverAndNoneEmpty ==
  contexts # None =>
    LET T == Cardinality(Threads)
        per == (cfg_.n_symbols + T - 1) \div T
    IN /\ \A s \in 0..(cfg_.n_symbols - 1) :
            Cardinality({c \in Threads : s \in ctx_symbols(c)}) = 1
       /\ \A c \in Threads : \A k \in 1..Len(contexts[c].symbols) :
            contexts[c].symbols[k] = c * per + k - 1
       /\ \A c \in Threads : c < T - 1 => Len(contexts[c].symbols) = per
       /\ Len(contexts[T - 1].symbols) = cfg_.n_symbols - (T - 1) * per
       /\ \A c \in Threads : Len(contexts[c].symbols) > 0

\* C24: the number of worker threads is
\* max(1, min(requested, |symbols|, hardware_concurrency)) whenever a thread
\* count was requested.
ThreadCountIsClampedMin ==
  (contexts # None /\ cfg_.num_threads > 0) =>
    Cardinality(Threads) =
      Max(1, Min(cfg_.num_threads, Min(cfg_.n_symbols, cfg_.hw)))

\* the loop rounds the workers have executed
RECURSIVE rounds_upto(_)
rounds_upto(t) == IF t < 0 THEN 0 ELSE workers[t].i + rounds_upto(t - 1)

\* C25: when run_mt has joined its threads, the workers have executed
\* exactly total_events loop rounds between them.
RunMtExecutesTotalEvents ==
  joined => rounds_upto(Cardinality(Threads) - 1) = cfg_.total_events

\* the ids worker t has given to its adds, with their place in the worker
issued(t) == {<<t, k, workers[t].ids[k]>> : k \in 1..Len(workers[t].ids)}
all_issued == UNION {issued(t) : t \in Threads}

\* C26: in a run_mt run no two adds, on one thread or on two, use the same
\* order id: the k-th add of thread t uses the id whose bits 56..63 are t
\* and whose bits 0..55 are k.
OrderIdsNeverCollide ==
  contexts # None =>
    /\ \A x, y \in all_issued : x[3] = y[3] => (x[1] = y[1] /\ x[2] = y[2])
    /\ \A x \in all_issued : \A b \in Bits64 :
         x[3][b] = IF b >= 56 THEN u64(x[1])[b - 56] ELSE u64(x[2])[b]

\* two threads have each added orders, one of them more than one
OrderIdsNeverCollideWitness ==
  /\ contexts # None
  /\ \E t, u \in Threads :
       t # u /\ Len(workers[t].ids) >= 2 /\ Len(workers[u].ids) >= 1

\* the timestamps worker t has made, with thread and event index
stamped(t) == {<<t, workers[t].stamps[k][1], workers[t].stamps[k][2]>> :
                 k \in 1..Len(workers[t].stamps)}
all_stamped == UNION {stamped(t) : t \in Threads}

\* C27: with realtime_ts false the timestamp of event i on thread t has t in
\* bits 48..63 and i in bits 0..47, and two events of different (thread,
\* index) have different timestamps.
TimestampsDistinct ==
  (contexts # None /\ ~cfg_.realtime_ts) =>
    /\ \A x, y \in all_stamped : x[3] = y[3] => (x[1] = y[1] /\ x[2] = y[2])
    /\ \A x \in all_stamped : \A b \in Bits64 :
         x[3][b] = IF b >= 48 THEN u64(x[1])[b - 48] ELSE u64(x[2])[b]

\* two threads have stamped events, one of them two events, and one of the
\* stamps is that of a cancel
TimestampsDistinctWitness ==
  /\ contexts # None
  /\ \E t, u \in Threads :
       /\ t # u
       /\ Len(workers[t].stamps) >= 2
       /\ Len(workers[u].stamps) >= 1
       /\ Len(workers[t].stamps) > Len(workers[t].ids)

(***************************************************************************)
(* Simulator::run, twice: two Simulators built from one SimConfig run one  *)
(* after the other (they share no object). The generator is a function of  *)
(* its seed: what its k-th draw returns is settled when a run first makes  *)
(* it and is the same for every later run that makes the same draw. Draws  *)
(* are taken at the level of rand_index, rand_bool, rand_int and NormalBM. *)
(***************************************************************************)
\* cfg_.total_events is at most RunEvents
RunEvents == 2

\* cfg_.symbol_list
symbol_list == <<"AAPL", "MSFT">>

\* SymState::mid as constructed, in price quanta
mid0 == 100

RunNames == {"A", "B"}

\* rand_int(rng, min, max): the two ends of the range stand for its values
rand_int_values(min, max) == {min, max}

\* a NormalBM sample that draws from the generator leaves sigma * (u * m)
\* and sigma * spare, in price quanta: one tick up or down each
normal_values == {<<-2, 2>>, <<2, -2>>, <<2, 2>>}

\* draw number k of the generator returns val to a call of the given kind
\* and argument: a draw made before, by a call of the same kind and
\* argument, returned the same
same_draw(log, k, d) ==
  (k <= Len(log) /\ log[k].kind = d.kind /\ log[k].arg = d.arg) => log[k].val = d.val

\* the draws ds, made from draw number k on, agree with the log
RECURSIVE draws_agree(_, _, _)
draws_agree(log, k, ds) ==
  IF ds = <<>> THEN TRUE
  ELSE same_draw(log, k, Head(ds)) /\ draws_agree(log, k + 1, Tail(ds))

\* the log once the draws ds are made from draw number k on
RECURSIVE log_draws(_, _, _)
log_draws(log, k, ds) ==
  IF ds = <<>> THEN log
  ELSE log_draws(IF k > Len(log) THEN Append(log, Head(ds)) ELSE log,
                 k + 1, Tail(ds))

Draw(kind, arg, val) == [kind |-> kind, arg |-> arg, val |-> val]

\* Simulator::now_ns in run x at iteration i: the steady clock advances
now_ns(x, i) == run_cfg.start[x] + i

\* the ts of the event of iteration i in run x
\* seeded fault: the clock is read whatever realtime_ts says
run_ts_clock(x, i) == u64(now_ns(x, i))

run_ts(x, i) == IF run_cfg.realtime_ts THEN u64(now_ns(x, i)) ELSE make_ts(i, 0)

\* no iteration of run's loop has been made
NoIteration ==
  [op |-> "none", si |-> 0, id |-> 0, price |-> 0, qty |-> 0, side |-> "BUY",
   matched |-> 0, trade_px |-> 0, ok |-> FALSE]

\* a Simulator as constructed, at the head of run's loop
Simulator_new ==
  [rng |-> 0, normal |-> [has_spare |-> FALSE, spare |-> 0],
   next_order_id_ |-> 1, i |-> 0,
   book |-> [k \in 1..Len(symbol_list) |-> OrderBook_new],
   mid |-> [k \in 1..Len(symbol_list) |-> mid0],
   live |-> [k \in 1..Len(symbol_list) |-> <<>>],
   events |-> <<>>, done |-> FALSE, last |-> NoIteration]

RunInit ==
  /\ \E total_events \in 0..RunEvents, realtime_ts \in BOOLEAN :
       run_cfg = [total_events |-> total_events, realtime_ts |-> realtime_ts,
                  start |-> [x \in RunNames |-> IF x = "A" THEN 0 ELSE 1]]
  /\ runs = [x \in RunNames |-> Simulator_new]
  /\ stream = <<>>
  /\ Others("run")

\* run x may take a step: the second run starts when the first has ended
Running(x) ==
  /\ runs # None
  /\ ~runs[x].done
  /\ x = "B" => runs["A"].done

\* the mid after an add
mid_after(b, mid) ==
  LET bb == best_bid(b)
      ba == best_ask(b)
  IN IF bb # None /\ ba # None THEN (bb[1] + ba[1]) \div 2
     ELSE IF bb # None THEN bb[1]
     ELSE IF ba # None THEN ba[1]
     ELSE mid

\* the live-id list after an add of qty that matched `matched`
\* seeded fault: the id is kept only when nothing matched
live_after_add_unmatched_only(live_ids, id, matched, qty) ==
  IF matched = 0 THEN Append(live_ids, id) ELSE live_ids

live_after_add(live_ids, id, matched, qty) ==
  IF matched < qty THEN Append(live_ids, id) ELSE live_ids

\* the Event an iteration emits after add_order(o, trade_px) returned matched
\* seeded fault: a TRADE carries the order's price
add_event_order_price(o, name, matched, trade_px) ==
  IF matched > 0
    THEN [ts_ns |-> o.ts_ns, type |-> "TRADE", symbol |-> name,
          price |-> o.price, qty |-> matched, side |-> o.side]
    ELSE [ts_ns |-> o.ts_ns, type |-> "ORDER_ADD", symbol |-> name,
          price |-> o.price, qty |-> o.qty, side |-> o.side]

add_event(o, name, matched, trade_px) ==
  IF matched > 0
    THEN [ts_ns |-> o.ts_ns, type |-> "TRADE", symbol |-> name,
          price |-> trade_px, qty |-> matched, side |-> o.side]
    ELSE [ts_ns |-> o.ts_ns, type |-> "ORDER_ADD", symbol |-> name,
          price |-> o.price, qty |-> o.qty, side |-> o.side]

\* one iteration of run x that adds an order: the draws return si, do_add,
\* buy, zs (when NormalBM has no spare) and qty
RunAdd(x, si, do_add, buy, zs, qty) ==
  /\ Running(x)
  /\ runs[x].i < run_cfg.total_events
  /\ do_add \/ runs[x].live[si + 1] = <<>>
  /\ LET r == runs[x]
         n == Len(symbol_list)
         fresh == ~r.normal.has_spare
         ds == <<Draw("index", n, si), Draw("bool", 0, do_add), Draw("bool", 0, buy)>>
               \o (IF fresh THEN <<Draw("normal", 0, zs)>> ELSE <<>>)
               \o <<Draw("int", 0, qty)>>
         side == IF buy THEN "BUY" ELSE "SELL"
         px == r.mid[si + 1] + (IF fresh THEN zs[1] ELSE r.normal.spare)
         id == r.next_order_id_
         ts == run_ts(x, r.i)
         o == [id |-> id, price |-> px, qty |-> qty, side |-> side, ts_ns |-> ts]
         a == add_order(r.book[si + 1], o, 0)
         matched == a.ret
         e == add_event(o, symbol_list[si + 1], matched, a.trade_price)
     IN /\ fresh \/ zs = <<2, 2>>
        /\ draws_agree(stream, r.rng + 1, ds)
        /\ stream' = log_draws(stream, r.rng + 1, ds)
        /\ runs' = [runs EXCEPT ![x] =
             [r EXCEPT !.rng = r.rng + Len(ds),
                       !.normal = IF fresh THEN [has_spare |-> TRUE, spare |-> zs[2]]
                                  ELSE [has_spare |-> FALSE, spare |-> r.normal.spare],
                       !.next_order_id_ = id + 1,
                       !.i = r.i + 1,
                       !.book[si + 1] = a.book,
                       !.mid[si + 1] = mid_after(a.book, r.mid[si + 1]),
                       !.live[si + 1] = live_after_add(@, id, matched, qty),
                       !.events = Append(@, e),
                       !.last = [op |-> "add", si |-> si, id |-> id, price |-> px,
                                 qty |-> qty, side |-> side, matched |-> matched,
                                 trade_px |-> a.trade_price, ok |-> FALSE]]]
  /\ UNCHANGED <<run_cfg, notRun>>

\* one iteration of run x that cancels the live id at place li: the draws
\* return si, false and li
RunCancel(x, si, li) ==
  /\ Running(x)
  /\ runs[x].i < run_cfg.total_events
  /\ runs[x].live[si + 1] # <<>>
  /\ li < Len(runs[x].live[si + 1])
  /\ LET r == runs[x]
         n == Len(symbol_list)
         live_ids == r.live[si + 1]
         ds == <<Draw("index", n, si), Draw("bool", 0, FALSE),
                 Draw("index", Len(live_ids), li)>>
         victim == live_ids[li + 1]
         swapped == [live_ids EXCEPT ![li + 1] = live_ids[Len(live_ids)]]
         c == cancel_order(r.book[si + 1], victim)
         e == [ts_ns |-> run_ts(x, r.i), type |-> "ORDER_CANCEL",
               symbol |-> symbol_list[si + 1], price |-> 0, qty |-> 0, side |-> "BUY"]
     IN /\ draws_agree(stream, r.rng + 1, ds)
        /\ stream' = log_draws(stream, r.rng + 1, ds)
        /\ runs' = [runs EXCEPT ![x] =
             [r EXCEPT !.rng = r.rng + Len(ds),
                       !.i = r.i + 1,
                       !.book[si + 1] = c.book,
                       !.live[si + 1] = SubSeq(swapped, 1, Len(swapped) - 1),
                       !.events = IF c.ret THEN Append(@, e) ELSE @,
                       !.last = [op |-> "cancel", si |-> si, id |-> victim, price |-> 0,
                                 qty |-> 0, side |-> "BUY", matched |-> 0,
                                 trade_px |-> 0, ok |-> c.ret]]]
  /\ UNCHANGED <<run_cfg, notRun>>

\* run x leaves its loop
RunEnd(x) ==
  /\ Running(x)
  /\ runs[x].i >= run_cfg.total_events
  /\ runs' = [runs EXCEPT ![x].done = TRUE]
  /\ UNCHANGED <<run_cfg, stream, notRun>>

NextRun ==
  \/ \E x \in RunNames, si \in 0..(Len(symbol_list) - 1), do_add, buy \in BOOLEAN,
        zs \in normal_values, qty \in rand_int_values(1, 100) :
       RunAdd(x, si, do_add, buy, zs, qty)
  \/ \E x \in RunNames, si \in 0..(Len(symbol_list) - 1), li \in 0..(RunEvents - 1) :
       RunCancel(x, si, li)
  \/ \E x \in RunNames : RunEnd(x)

SpecRun == RunInit /\ [][NextRun]_vars

MaxSymLen == 2

\* the 64-bit word whose set bits are S
bits64(S) == [b \in Bits64 |-> IF b \in S THEN 1 ELSE 0]

\* byte j (0..7) of the object representation of a 64-bit word
byte_of(v, j) ==
  v[8 * j] + 2 * v[8 * j + 1] + 4 * v[8 * j + 2] + 8 * v[8 * j + 3]
    + 16 * v[8 * j + 4] + 32 * v[8 * j + 5] + 64 * v[8 * j + 6] + 128 * v[8 * j + 7]

\* put(v) for a uint64_t or a double: the 8 bytes of v, lowest address first
\* seeded fault: the bytes are written highest first
put64_reversed(v) == [j \in 1..8 |-> byte_of(v, 8 - j)]

put64(v) == [j \in 1..8 |-> byte_of(v, j - 1)]

\* put(v) for an int32_t: the 4 bytes of its two's complement
put32(v) ==
  <<v % 256, (v \div 256) % 256, (v \div 65536) % 256, (v \div 16777216) % 256>>

\* memcpy of 8 bytes of data, from offset off (0-based), into a 64-bit word
load64(data, off) ==
  [b \in Bits64 |-> (data[off + (b \div 8) + 1] \div (2 ^ (b % 8))) % 2]

\* memcpy of 4 bytes of data, from offset off, into an int32_t
load32(data, off) ==
  data[off + 1] + 256 * data[off + 2] + 65536 * data[off + 3]
    + 16777216 * (IF data[off + 4] >= 128 THEN data[off + 4] - 256 ELSE data[off + 4])

\* Event::serialize
serialize(e) ==
  LET sl == Len(e.symbol) % 65536
  IN <<sl % 256, (sl \div 256) % 256>> \o e.symbol \o put64(e.ts_ns)
       \o <<e.type>> \o put64(e.price) \o put32(e.qty) \o <<e.side>>

\* Event::deserialize(data, len, consumed): ret is the optional returned,
\* consumed the caller's variable afterwards (consumed0 before the call) and
\* read the number of leading bytes of data the call has looked at
deserialize(data, len, consumed0) ==
  IF len < 2 THEN [ret |-> None, consumed |-> consumed0, read |-> 0]
  ELSE
    LET sl == data[1] + 256 * data[2] IN
    IF len < 2 + sl + 8 + 1 + 8 + 4 + 1
      THEN [ret |-> None, consumed |-> consumed0, read |-> 2]
      ELSE
        LET off == 2 + sl
        IN [ret |-> Some([ts_ns |-> load64(data, off),
                          type |-> data[off + 8 + 1],
                          symbol |-> SubSeq(data, 3, 2 + sl),
                          price |-> load64(data, off + 9),
                          qty |-> load32(data, off + 17),
                          side |-> data[off + 21 + 1]]),
            consumed |-> off + 22, read |-> off + 22]

\* the Events given to serialize
SymbolBytes == {65, 200}
Symbols == UNION {[1..n -> SymbolBytes] : n \in 0..MaxSymLen}
Events ==
  [ts_ns : {make_ts(258, 1), bits64({63})},
   type : {1, 2, 3},
   symbol : Symbols,
   price : {bits64({45, 48, 51, 52, 54, 62}), bits64(51..62)},
   qty : {-2147483647, -1, 300},
   side : {66, 83}]

\* the bytes a corrupted record may hold at one place
BadBytes == {0, 7, 255}

NotCalled == [called |-> FALSE, ret |-> None, consumed |-> 0, read |-> 0]

CodecInit ==
  /\ ev \in Events
  /\ wire = None
  /\ wire_len = 0
  /\ decoded = NotCalled
  /\ Others("codec")

\* e.serialize(): the record, whole
Serialize ==
  /\ ev # None
  /\ wire = None
  /\ wire' = serialize(ev)
  /\ wire_len' = Len(serialize(ev))
  /\ UNCHANGED <<ev, decoded, notCodec>>

\* the reader is given only the first n bytes of the record
Truncate(n) ==
  /\ wire # None
  /\ ~decoded.called
  /\ wire_len = Len(wire)
  /\ wire = serialize(ev)
  /\ n < Len(wire)
  /\ wire_len' = n
  /\ UNCHANGED <<ev, wire, decoded, notCodec>>

\* one byte of the record is not what serialize wrote
Corrupt(at, byte) ==
  /\ wire # None
  /\ ~decoded.called
  /\ wire_len = Len(wire)
  /\ wire = serialize(ev)
  /\ at \in 1..Len(wire)
  /\ wire[at] # byte
  /\ wire' = [wire EXCEPT ![at] = byte]
  /\ UNCHANGED <<ev, wire_len, decoded, notCodec>>

\* Event::deserialize(wire, wire_len, consumed)
Deserialize ==
  /\ wire # None
  /\ ~decoded.called
  /\ LET r == deserialize(wire, wire_len, decoded.consumed)
     IN decoded' = [called |-> TRUE, ret |-> r.ret, consumed |-> r.consumed,
                    read |-> r.read]
  /\ UNCHANGED <<ev, wire, wire_len, notCodec>>

\* the places of a record where a wrong byte is tried: the two length bytes
\* and the type byte
CorruptPlaces(n) == {1, 2, n - 13}

NextCodec ==
  \/ Serialize
  \/ \E n \in 0..(23 + MaxSymLen) : Truncate(n)
  \/ \E at \in CorruptPlaces(IF wire = None THEN 0 ELSE Len(wire)), byte \in BadBytes :
       Corrupt(at, byte)
  \/ Deserialize

SpecCodec == CodecInit /\ [][NextCodec]_vars

\* C29: deserialize of the bytes serialize made of an Event returns that
\* Event, equal in ts_ns, type, symbol, price, qty and side, and sets
\* consumed to 24 + the symbol's length.
RoundTrip ==
  (decoded # None /\ decoded.called /\ wire = serialize(ev) /\ wire_len = Len(wire)) =>
    /\ decoded.ret # None
    /\ decoded.ret[1].ts_ns = ev.ts_ns
    /\ decoded.ret[1].type = ev.type
    /\ decoded.ret[1].symbol = ev.symbol
    /\ decoded.ret[1].price = ev.price
    /\ decoded.ret[1].qty = ev.qty
    /\ decoded.ret[1].side = ev.side
    /\ decoded.consumed = 24 + Len(ev.symbol)

\* a whole record with a symbol of MaxSymLen bytes, one of them above 127,
\* and a negative qty has been deserialized
RoundTripWitness ==
  /\ decoded # None /\ decoded.called
  /\ wire = serialize(ev) /\ wire_len = Len(wire)
  /\ Len(ev.symbol) = MaxSymLen /\ ev.symbol[1] = 200
  /\ ev.qty < 0
  /\ decoded.ret # None

\* the record deserialize was given is not valid: fewer than 2 bytes,
\* fewer than 24 + sl bytes, or a type byte that is not 1, 2 or 3
invalid_record(data, len) ==
  \/ len < 2
  \/ len < 24 + data[1] + 256 * data[2]
  \/ data[2 + data[1] + 256 * data[2] + 8 + 1] \notin {1, 2, 3}

\* C30: deserialize returns no Event for an invalid record, and never looks
\* at a byte at or beyond len.
DeserializeRejectsInvalid ==
  (decoded # None /\ decoded.called) =>
    /\ decoded.read <= wire_len
    /\ invalid_record(wire, wire_len) => decoded.ret = None

(***************************************************************************)
(* main: the check of the log path against the thread count, the choice of *)
(* the storage by make_storage, and the threads that write to the sinks.   *)
(* A path is a sequence of pieces: ".mdb", "/" and "log" (any other text). *)
(***************************************************************************)
\* a log path has at most MaxPathLen pieces
MaxPathLen == 2

PathPieces == {"log", ".mdb", "/"}
Paths == UNION {[1..n -> PathPieces] : n \in 0..MaxPathLen}

\* path.find(".mdb") != npos
find_mdb(path) == \E i \in 1..Len(path) : path[i] = ".mdb"

\* has_mdb_ext of make_storage
has_mdb_ext(path) == Len(path) > 0 /\ path[Len(path)] = ".mdb"

\* path.find(".mdb/") != npos
find_mdb_slash(path) ==
  \E i \in 1..(Len(path) - 1) : path[i] = ".mdb" /\ path[i + 1] = "/"

\* main's test for disabling the log
\* seeded fault: only the extension is looked at
lmdb_and_threads_ext_only(num_threads, path) == num_threads > 1 /\ has_mdb_ext(path)

lmdb_and_threads(num_threads, path) == num_threads > 1 /\ find_mdb(path)

\* make_storage(path): the kind of IStorage made
make_storage(path) ==
  IF path = <<>> THEN "NullStorage"
  ELSE IF has_mdb_ext(path) \/ find_mdb_slash(path) THEN "LMDBStorage"
  ELSE "BinaryLogStorage"

\* the sinks whose write is not protected by a mutex
not_thread_safe(kind) == kind \in {"LMDBStorage", "GrpcStorage"}

\* the command line is parsed
MainInit ==
  /\ \E num_threads \in 0..MaxThreads, path \in Paths, no_log \in BOOLEAN :
       opts = [num_threads |-> num_threads,
               log_path |-> IF no_log THEN <<>> ELSE path,
               given_path |-> path, no_log |-> no_log, pc |-> "parsed"]
  /\ sinks = None
  /\ sink_writers = {}
  /\ Others("main")

\* main from the try to the construction of the Simulator
MainCheck ==
  /\ opts # None
  /\ opts.pc = "parsed"
  /\ opts' = [opts EXCEPT
       !.log_path = IF opts.no_log \/ lmdb_and_threads(opts.num_threads, @)
                      THEN <<>> ELSE @,
       !.pc = "checked"]
  /\ UNCHANGED <<sinks, sink_writers, notMain>>

\* Simulator sim(cfg): storage_ is made; nothing calls set_grpc_sink
MainConstruct ==
  /\ opts # None
  /\ opts.pc = "checked"
  /\ sinks' = [storage_ |-> make_storage(opts.log_path), grpc_sink_ |-> nullptr]
  /\ opts' = [opts EXCEPT !.pc = "running"]
  /\ UNCHANGED <<sink_writers, notMain>>

\* the threads that call emit_event: the workers of run_mt when
\* num_threads > 1, the main thread (named -1) in run otherwise
emit_threads ==
  IF opts.num_threads > 1
    THEN 0..(n_threads_of(opts.num_threads, Len(symbol_list), 0) - 1)
    ELSE {-1}

\* thread t calls emit_event
EmitEvent(t) ==
  /\ opts # None
  /\ opts.pc = "running"
  /\ t \in emit_threads
  /\ t \notin sink_writers
  /\ sink_writers' = sink_writers \cup {t}
  /\ UNCHANGED <<opts, sinks, notMain>>

NextMain ==
  \/ MainCheck
  \/ MainConstruct
  \/ \E t \in -1..(MaxThreads - 1) : EmitEvent(t)

SpecMain == MainInit /\ [][NextMain]_vars

\* C31: a sink that is not thread-safe never has two threads writing to it,
\* and with num_threads > 1 no such sink is attached at all.
UnsafeSinkNeverShared ==
  (sinks # None) =>
    /\ (not_thread_safe(sinks.storage_) \/ sinks.grpc_sink_ # nullptr)
         => Cardinality(sink_writers) <= 1
    /\ opts.num_threads > 1
         => (~not_thread_safe(sinks.storage_) /\ sinks.grpc_sink_ = nullptr)

\* a run with two writing workers whose command line named an LMDB path
UnsafeSinkNeverSharedWitness ==
  /\ sinks # None
  /\ opts.num_threads > 1
  /\ ~opts.no_log
  /\ make_storage(opts.given_path) = "LMDBStorage"
  /\ find_mdb_slash(opts.given_path)
  /\ Cardinality(sink_writers) >= 2

\* the events run x emits in a step
emitted(x) == SubSeq(runs[x].events', Len(runs[x].events) + 1, Len(runs[x].events'))

\* an iteration of run x is made in a step
iterates(x) == runs # None /\ runs'[x].i = runs[x].i + 1

\* C32: an iteration that adds emits exactly one event, a TRADE with the
\* trade price and the matched quantity when something matched and otherwise
\* an ORDER_ADD with the order's price and quantity; an iteration that
\* cancels emits one ORDER_CANCEL (price 0, qty 0, side BUY) when
\* cancel_order returned true and nothing otherwise.
OneEventPerIterationStep ==
  \A x \in RunNames : iterates(x) =>
    LET l == runs[x].last'
        es == emitted(x)
    IN /\ Len(es) <= 1
       /\ l.op \in {"add", "cancel"}
       /\ l.op = "add" =>
            /\ Len(es) = 1
            /\ es[1].symbol = symbol_list[l.si + 1]
            /\ es[1].side = l.side
            /\ IF l.matched > 0
                 THEN es[1].type = "TRADE" /\ es[1].price = l.trade_px
                      /\ es[1].qty = l.matched
                 ELSE es[1].type = "ORDER_ADD" /\ es[1].price = l.price
                      /\ es[1].qty = l.qty
       /\ l.op = "cancel" =>
            /\ Len(es) = 1 <=> l.ok
            /\ l.ok => /\ es[1].type = "ORDER_CANCEL" /\ es[1].price = 0
                       /\ es[1].qty = 0 /\ es[1].side = "BUY"
                       /\ es[1].symbol = symbol_list[l.si + 1]

resting_ids(b) == DOMAIN b.index

\* the number of places of the list l that hold id
occurrences(l, id) == Cardinality({j \in 1..Len(l) : l[j] = id})

\* C33: in every state each id resting in a symbol's book is in that
\* symbol's live-id list exactly once; an add appends its id exactly when it
\* left a residual, a cancel takes exactly its victim out of the list, and
\* nothing else changes a list, so the id of a filled order stays until it is
\* picked as a victim and its cancel fails.
LiveListStep ==
  \A x \in RunNames : iterates(x) =>
    LET l == runs[x].last'
        k == l.si + 1
        before == runs[x].live
        after == runs[x].live'
    IN /\ \A m \in 1..Len(symbol_list) : \A id \in resting_ids(runs[x].book'[m]) :
            occurrences(after[m], id) = 1
       /\ \A m \in 1..Len(symbol_list) : m # k => after[m] = before[m]
       /\ l.op = "add" =>
            after[k] = IF l.matched < l.qty THEN Append(before[k], l.id) ELSE before[k]
       /\ l.op = "cancel" =>
            /\ Len(after[k]) = Len(before[k]) - 1
            /\ \A id \in {before[k][j] : j \in 1..Len(before[k])} :
                 occurrences(after[k], id) =
                   occurrences(before[k], id) - (IF id = l.id THEN 1 ELSE 0)
            /\ l.ok <=> l.id \in resting_ids(runs[x].book[k])

RunLongInit ==
  /\ run_cfg = [total_events |-> RunEvents + 1, realtime_ts |-> FALSE,
                start |-> [x \in RunNames |-> 0]]
  /\ runs = [x \in RunNames |->
               IF x = "A" THEN Simulator_new ELSE [Simulator_new EXCEPT !.done = TRUE]]
  /\ stream = <<>>
  /\ Others("run")

SpecRunLong == RunLongInit /\ [][NextRun]_vars

\* C34: after every iteration, an add or a cancel, the mid of the iteration's
\* symbol is the average of the best bid and the best ask of its book if
\* both exist, the one that exists otherwise, and its former value if the
\* book is empty.
MidRecomputedStep ==
  \A x \in RunNames : iterates(x) =>
    LET k == runs[x].last'.si + 1
    IN runs[x].mid'[k] = mid_after(runs[x].book'[k], runs[x].mid[k])

MidRecomputedEveryIteration == [][MidRecomputedStep]_vars

(***************************************************************************)
(* The Level state machine                                                 *)
(***************************************************************************)
\* the (side, tick) entries of the tick maps that point to Level l
entries_of(b, l) ==
  {<<side, t>> \in Sides \X (DOMAIN b.bid_levels \cup DOMAIN b.ask_levels) :
     t \in DOMAIN LevelsMap(b, side) /\ LevelsMap(b, side)[t] = l}

active(b, l) == entries_of(b, l) # {}

pooled(b, l) == \E j \in 1..Len(b.free_levels) : b.free_levels[j] = l

\* Level l is in exactly one of the two states, and the state is sound
level_state_ok(b, l) ==
  /\ Cardinality(entries_of(b, l)) + Count(b.free_levels, l) = 1
  /\ pooled(b, l) => b.levels[l].q = <<>>
  /\ active(b, l) =>
       /\ b.levels[l].q # <<>>
       /\ \A e \in entries_of(b, l) : b.levels[l].tick = e[2]

\* C35: every Level is either active (in one side's tick map, once) or
\* pooled (in the free list, once, with an empty queue, in no map); it goes
\* from active to pooled exactly when its queue becomes empty; and a Level
\* taken from the pool comes back with the new tick and a queue that holds
\* the new order only.
LevelStep ==
  /\ \A l \in 1..Len(book.levels') : level_state_ok(book', l)
  /\ \A l \in 1..Len(book.levels) :
       /\ (active(book, l) /\ pooled(book', l)) <=>
            (book.levels[l].q # <<>> /\ book.levels'[l].q = <<>>)
       /\ (pooled(book, l) /\ active(book', l)) =>
            /\ last'.op = "add"
            /\ book.levels'[l].tick = last'.tick
            /\ Len(book.levels'[l].q) = 1
            /\ book.levels'[l].q[1].id = last'.id

LevelStateMachine == [][LevelStep]_vars

\* Level 1 was made first, emptied while Level 2 was active, pooled, and
\* taken again by the last add
LevelStateMachineWitness ==
  /\ Len(book.levels) = 2
  /\ book.levels[2].q # <<>> /\ book.levels[2].q[1].ts_ns = 1
  /\ Len(book.levels[1].q) = 1
  /\ book.levels[1].q[1].ts_ns = 3
  /\ last.op = "add" /\ last.matched = 0
  /\ book.levels[1].q[1].id = last.id
  /\ book.free_levels = <<>>

\* C36: between operations every order in the queue of a level of a side's
\* tick map has a positive quantity, the price of the level's tick and the
\* side of the map, and no level of a tick map has an empty queue.
RestingOrdersSound ==
  \A side \in Sides : \A t \in DOMAIN LevelsMap(book, side) :
    LET q == book.levels[LevelsMap(book, side)[t]].q
    IN /\ q # <<>>
       /\ \A i \in 1..Len(q) :
            /\ q[i].qty > 0
            /\ q[i].price = tick_to_price(t)
            /\ q[i].side = side

\* both sides hold orders, one of them the rest of a partly filled order
RestingOrdersSoundWitness ==
  /\ DOMAIN book.bid_levels # {} /\ DOMAIN book.ask_levels # {}
  /\ last.op = "add" /\ last.matched > 0 /\ last.matched < last.qty
  /\ \E side \in Sides : \E t \in DOMAIN LevelsMap(book, side) :
       LET q == book.levels[LevelsMap(book, side)[t]].q
       IN q[Len(q)].id = last.id /\ q[Len(q)].qty = last.qty - last.matched

(***************************************************************************)
(* cancel_order on a book with a stale index entry. No call sequence puts  *)
(* such an entry into index_ (C1), so the entry is put there by a fault    *)
(* step: the latent bug the recovery branches of cancel_order are for.     *)
(***************************************************************************)
\* the index entry of id points to no level, or to a level whose queue does
\* not hold the id
stale(b, id) ==
  /\ contains(b.index, id)
  /\ LET r == b.index[id]
     IN \/ r.tick \notin DOMAIN LevelsMap(b, r.side)
        \/ \A i \in 1..Len(QueueAt(b, r.side, r.tick)) :
             QueueAt(b, r.side, r.tick)[i].id # id

\* a fault leaves an index entry (side, tick) for an id that does not rest
StaleIndexEntry(id, side, tick) ==
  /\ ~aborted
  /\ now < MisuseOps
  /\ \A j \in Ids : ~stale(book, j)
  /\ NewId(book, id)
  /\ book' = [book EXCEPT !.index = insert(@, id, [side |-> side, tick |-> tick]).m]
  /\ last' = [NoCall EXCEPT !.op = "fault", !.id = id, !.side = side, !.tick = tick]
  /\ UNCHANGED <<trade_price, now, aborted, notBook>>

\* cancel_order called with the id of the stale entry; last keeps the side
\* and tick the entry pointed to
CancelStale(id) ==
  /\ ~aborted
  /\ now < MisuseOps
  /\ stale(book, id)
  /\ LET r == cancel_order(book, id)
     IN /\ book' = r.book
        /\ last' = [op |-> "cancel_stale", id |-> id,
                    side |-> book.index[id].side, tick |-> book.index[id].tick,
                    qty |-> 0, matched |-> 0, ok |-> r.ret]
  /\ now' = now + 1
  /\ UNCHANGED <<trade_price, aborted, notBook>>

NextStale ==
  \/ \E id \in Ids, side \in Sides, px \in Prices, qty \in Qtys :
       now < MisuseOps /\ NewId(book, id) /\ AddOrder(id, side, px, qty)
  \/ \E id \in Ids : now < MisuseOps /\ ~stale(book, id) /\ CancelOrder(id)
  \/ \E id \in Ids, side \in Sides, px \in Prices :
       StaleIndexEntry(id, side, price_to_tick(px))
  \/ \E id \in Ids : CancelStale(id)

SpecStale == Init /\ [][NextStale]_vars

\* C37: a cancel_order call on an id whose index entry is stale erases that
\* entry, returns false and leaves every level, queue, tick map, active-tick
\* sequence, the free list and both best ticks as they were.
StaleCancelStep ==
  (last'.op = "cancel_stale" /\ now' = now + 1) =>
    /\ ~last'.ok
    /\ book'.index = erase(book.index, last'.id)
    /\ book'.levels = book.levels
    /\ book'.bid_levels = book.bid_levels /\ book'.ask_levels = book.ask_levels
    /\ book'.bid_ticks = book.bid_ticks /\ book'.ask_ticks = book.ask_ticks
    /\ book'.free_levels = book.free_levels
    /\ book'.best_bid_tick = book.best_bid_tick
    /\ book'.best_ask_tick = book.best_ask_tick

StaleCancelSelfHeals == [][StaleCancelStep]_vars

\* cancel_order has failed on a stale entry that pointed to a level which is
\* still there with another order in its queue, and the entry is gone
StaleCancelSelfHealsWitness ==
  /\ last.op = "cancel_stale" /\ ~last.ok
  /\ ~contains(book.index, last.id)
  /\ last.tick \in DOMAIN LevelsMap(book, last.side)
  /\ Len(QueueAt(book, last.side, last.tick)) = 1
  /\ contains(book.index, QueueAt(book, last.side, last.tick)[1].id)

\* cancel_order has failed on a stale entry that pointed to no level
StaleCancelNoLevelWitness ==
  /\ last.op = "cancel_stale" /\ ~last.ok
  /\ ~contains(book.index, last.id)
  /\ last.tick \notin DOMAIN LevelsMap(book, last.side)
  /\ index_size(book) = 1

(***************************************************************************)
(* The outer matching loop of add_order, one iteration at a time.          *)
(***************************************************************************)
LoopOps == 3

best_opposite(b, side) ==
  IF side = "BUY" THEN b.best_ask_tick ELSE b.best_bid_tick

\* while (remaining > 0 && best_ask_tick_ && *best_ask_tick_ <= tick), and
\* its mirror image for a SELL
loop_cond(b, side, tick, remaining) ==
  /\ remaining > 0
  /\ best_opposite(b, side) # None
  /\ crosses(side, best_opposite(b, side)[1], tick)

\* seeded fault: the level emptied by the fills is left in its tick map
outer_iteration_keeps_level(b, side, remaining, tp) ==
  LET best_tick == best_opposite(b, side)[1]
      lvl       == get_level(b, Opp(side), best_tick)
  IN IF lvl = nullptr
       THEN [book |-> recompute_best(b, Opp(side)), remaining |-> remaining,
             trade_price |-> tp, recovered |-> TRUE, best_tick |-> best_tick]
       ELSE
         LET f  == fill_level(b.levels[lvl].q, b.index, remaining, tp)
             b1 == [b EXCEPT !.levels[lvl].q = f.q, !.index = f.index]
         IN [book |-> b1,
             remaining |-> f.remaining, trade_price |-> f.trade_price,
             recovered |-> FALSE, best_tick |-> best_tick]

\* the body of the outer loop, entered with loop_cond true
outer_iteration(b, side, remaining, tp) ==
  LET best_tick == best_opposite(b, side)[1]
      lvl       == get_level(b, Opp(side), best_tick)
  IN IF lvl = nullptr
       THEN [book |-> recompute_best(b, Opp(side)), remaining |-> remaining,
             trade_price |-> tp, recovered |-> TRUE, best_tick |-> best_tick]
       ELSE
         LET f  == fill_level(b.levels[lvl].q, b.index, remaining, tp)
             b1 == [b EXCEPT !.levels[lvl].q = f.q, !.index = f.index]
         IN [book |-> remove_level_if_empty(b1, Opp(side), best_tick, lvl),
             remaining |-> f.remaining, trade_price |-> f.trade_price,
             recovered |-> FALSE, best_tick |-> best_tick]

\* the iterations the loop makes from (b, remaining), at most fuel of them:
\* the sequence of their results, and whether the loop condition became false
RECURSIVE outer_run(_, _, _, _, _, _)
outer_run(b, side, tick, remaining, tp, fuel) ==
  IF ~loop_cond(b, side, tick, remaining)
    THEN [trace |-> <<>>, done |-> TRUE]
    ELSE IF fuel = 0
      THEN [trace |-> <<>>, done |-> FALSE]
      ELSE LET it == outer_iteration(b, side, remaining, tp)
               r  == outer_run(it.book, side, tick, it.remaining,
                               it.trade_price, fuel - 1)
           IN [trace |-> <<it>> \o r.trace, done |-> r.done]

\* the iterations an add_order call may need: one per active opposite level
\* and one for the recovery branch
max_iterations(b, side) == Len(TicksVec(b, Opp(side))) + 1

\* the cached best tick of a side names a tick that has no level
lost_best(b, side) ==
  LET best == IF side = "BUY" THEN b.best_bid_tick ELSE b.best_ask_tick
  IN best # None /\ best[1] \notin DOMAIN LevelsMap(b, side)

\* a fault leaves the cached best tick of a side at a tick without a level,
\* the state the recovery branch of the loop is written for
LoseBest(side, tick) ==
  /\ ~aborted
  /\ now < LoopOps
  /\ \A sd \in Sides : ~lost_best(book, sd)
  /\ tick \notin DOMAIN LevelsMap(book, side)
  /\ book' = IF side = "BUY" THEN [book EXCEPT !.best_bid_tick = Some(tick)]
                             ELSE [book EXCEPT !.best_ask_tick = Some(tick)]
  /\ last' = [op |-> "fault", id |-> 0, side |-> side, tick |-> tick,
              qty |-> 0, matched |-> 0, ok |-> FALSE, iters |-> 0,
              recovered |-> 0]
  /\ UNCHANGED <<trade_price, now, aborted, notBook>>

\* add_order; last also keeps the number of iterations of the outer loop and
\* how many of them took the recovery branch
AddOrderLoop(id, side, px, qty) ==
  /\ ~aborted
  /\ now < LoopOps
  /\ LET o  == [id |-> id, price |-> px, qty |-> qty, side |-> side, ts_ns |-> now]
         r  == add_order(book, o, trade_price)
         tr == outer_run(book, side, price_to_tick(px), qty, trade_price,
                         max_iterations(book, side)).trace
     IN /\ book' = r.book
        /\ trade_price' = r.trade_price
        /\ aborted' = r.aborted
        /\ last' = [op |-> "add", id |-> id, side |-> side,
                    tick |-> price_to_tick(px), qty |-> qty,
                    matched |-> r.ret, ok |-> FALSE, iters |-> Len(tr),
                    recovered |-> Cardinality({k \in 1..Len(tr) : tr[k].recovered})]
  /\ now' = now + 1
  /\ UNCHANGED notBook

CancelOrderLoop(id) ==
  /\ ~aborted
  /\ now < LoopOps
  /\ LET r == cancel_order(book, id)
     IN /\ book' = r.book
        /\ last' = [op |-> "cancel", id |-> id, side |-> "BUY", tick |-> 0,
                    qty |-> 0, matched |-> 0, ok |-> r.ret, iters |-> 0,
                    recovered |-> 0]
  /\ now' = now + 1
  /\ UNCHANGED <<trade_price, aborted, notBook>>

NextLoop ==
  \/ \E id \in Ids, side \in Sides, px \in Prices, qty \in Qtys :
       NewId(book, id) /\ AddOrderLoop(id, side, px, qty)
  \/ \E id \in Ids : contains(book.index, id) /\ CancelOrderLoop(id)
  \/ \E side \in Sides, px \in Prices : LoseBest(side, price_to_tick(px))

SpecLoop == Init /\ [][NextLoop]_vars

\* C38: from every state of the book and for every incoming order the outer
\* matching loop ends within one iteration per active opposite level plus
\* one: an iteration that finds the level of the best tick either brings the
\* remaining quantity to zero or removes that level from its tick map, and
\* the recovery branch, taken when the best tick has no level, leaves a best
\* tick that has one (or none at all), so it is never taken twice. What the
\* iterations leave is what add_order goes on with.
AddOrderTerminates ==
  \A side \in Sides, px \in Prices, qty \in Qtys :
    LET tick == price_to_tick(px)
        r    == outer_run(book, side, tick, qty, trade_price,
                          max_iterations(book, side))
        tr   == r.trace
        m    == match_loop(book, side, tick, qty, trade_price)
    IN /\ r.done
       /\ \A k \in 1..Len(tr) :
            IF tr[k].recovered
              THEN /\ k = 1
                   /\ ~lost_best(tr[k].book, Opp(side))
                   /\ tr[k].remaining = qty
              ELSE \/ tr[k].remaining = 0
                   \/ tr[k].best_tick \notin DOMAIN LevelsMap(tr[k].book, Opp(side))
       /\ tr # <<>> => /\ tr[Len(tr)].book = m.book
                       /\ tr[Len(tr)].remaining = m.remaining
                       /\ tr[Len(tr)].trade_price = m.trade_price
       /\ tr = <<>> => m.book = book /\ m.remaining = qty

\* an add_order call has gone through the recovery branch and then through
\* two levels, emptying the first, and matched its whole quantity
AddOrderTerminatesWitness ==
  /\ last.op = "add"
  /\ last.recovered = 1
  /\ last.iters = 3
  /\ last.matched = last.qty

(***************************************************************************)
(* The probe loops of the fixed-capacity FlatHashMap                       *)
(***************************************************************************)
slots_in(m, st) == {i \in DOMAIN m.table : m.table[i].state = st}

\* the for (;;) loop of find_index ends: within one cycle from the home slot
\* of k it meets an Empty slot or the Filled slot of k
find_ends(m, k) ==
  \E n \in 0..(capacity(m) - 1) :
    LET e == m.table[(home(m, k) + n) % capacity(m)]
    IN e.state = "Empty" \/ (e.state = "Filled" /\ e.key = k)

\* C39: with growth disabled size_ and tombs_ are the numbers of Filled and
\* Tomb slots and size_ + tombs_ < capacity, so the table has an Empty slot;
\* the probe of the last insert has ended, and a find or erase of any key
\* ends.
AlwaysAnEmptySlot ==
  /\ fmap.size_ = Cardinality(slots_in(fmap, "Filled"))
  /\ fmap.tombs_ = Cardinality(slots_in(fmap, "Tomb"))
  /\ fmap.size_ + fmap.tombs_ < capacity(fmap)
  /\ slots_in(fmap, "Empty") # {}
  /\ ~flast.hang
  /\ \A k \in FKeys : find_ends(fmap, k)

\* an erase has left a tombstone in a table with a single Empty slot, and a
\* key that is not in the table is probed up to that slot
AlwaysAnEmptySlotWitness ==
  /\ flast.op = "erase" /\ flast.ret
  /\ fmap.tombs_ >= 1
  /\ Cardinality(slots_in(fmap, "Empty")) = 1
  /\ find_index(fmap, flast.key) = npos

(***************************************************************************)
(* The ring with cursors of a fixed width. head_ and tail_ are size_t      *)
(* values that only ever grow, so they wrap past the maximum value; the    *)
(* width is scaled down to CursorBits bits and a run starts with an empty  *)
(* ring whose cursors stand at any value, as after that many pushes and    *)
(* pops.                                                                   *)
(***************************************************************************)
CursorBits == 3

CursorMod == 2 ^ CursorBits

\* seeded fault: the difference of the cursors is taken without wraparound
cursor_diff_unwrapped(head, tail) == head - tail

\* head - tail in size_t arithmetic
cursor_diff(head, tail) == (head - tail + CursorMod) % CursorMod

\* cursor + 1 in size_t arithmetic
cursor_next(c) == (c + 1) % CursorMod

WrapInit ==
  /\ \E c \in 0..(CursorMod - 1) : head_ = c /\ tail_ = c
  /\ buf_ = SpscRing_new
  /\ prod = [pc |-> "idle", head |-> 0, tail |-> 0, i |-> 1, ret |-> FALSE,
             calls |-> 0]
  /\ cons = [pc |-> "idle", tail |-> 0, head |-> 0, ret |-> FALSE]
  /\ got = <<>>
  /\ hb = None
  /\ Others("ring")

\* try_push(i) up to the full test: head_.load(relaxed), tail_.load(acquire),
\* return false when (head - tail) == Capacity
WrapPushTest ==
  /\ prod.pc = "idle"
  /\ prod.i <= MaxPush
  /\ prod.calls < MaxPush + Capacity
  /\ prod' = IF cursor_diff(head_, tail_) = Capacity
             THEN [prod EXCEPT !.head = head_, !.tail = tail_, !.ret = FALSE,
                               !.calls = @ + 1]
             ELSE [prod EXCEPT !.pc = "construct", !.head = head_,
                               !.tail = tail_, !.calls = @ + 1]
  /\ UNCHANGED <<head_, tail_, buf_, cons, got, hb, notRing>>

\* the rest of try_push: placement new at ptr_at(head), head_.store(head + 1)
WrapPushStore ==
  /\ prod.pc = "construct"
  /\ buf_' = [buf_ EXCEPT ![ptr_at(prod.head)] = [state |-> "live", v |-> prod.i]]
  /\ head_' = cursor_next(prod.head)
  /\ prod' = [prod EXCEPT !.pc = "idle", !.ret = TRUE, !.i = @ + 1]
  /\ UNCHANGED <<tail_, cons, got, hb, notRing>>

\* try_pop up to the empty test: tail_.load(relaxed), head_.load(acquire),
\* return false when tail == head
WrapPopTest ==
  /\ cons.pc = "idle"
  /\ Len(got) < MaxPush
  /\ cons' = IF is_empty(tail_, head_)
             THEN [cons EXCEPT !.tail = tail_, !.head = head_, !.ret = FALSE]
             ELSE [cons EXCEPT !.pc = "move", !.tail = tail_, !.head = head_]
  /\ UNCHANGED <<head_, tail_, buf_, prod, got, hb, notRing>>

\* the rest of try_pop: the object at ptr_at(tail) is moved out and
\* destroyed, tail_.store(tail + 1)
WrapPopStore ==
  /\ cons.pc = "move"
  /\ got' = Append(got, buf_[ptr_at(cons.tail)].v)
  /\ buf_' = [buf_ EXCEPT ![ptr_at(cons.tail)] = raw]
  /\ tail_' = cursor_next(cons.tail)
  /\ cons' = [cons EXCEPT !.pc = "idle", !.ret = TRUE]
  /\ UNCHANGED <<head_, prod, hb, notRing>>

NextWrap ==
  \/ WrapPushTest
  \/ WrapPushStore
  \/ WrapPopTest
  \/ WrapPopStore

SpecRingWrap == WrapInit /\ [][NextWrap]_vars

\* C40: whatever value the cursors started from, and also when head_ or
\* both cursors have wrapped past the maximum value: head - tail taken
\* modulo 2^w is the number of stored elements and is at most Capacity; the
\* stored elements are, oldest first, in the slots ptr_at(tail_),
\* ptr_at(tail_ + 1), ..., and are the values pushed after the ones already
\* popped; the values popped are 1, 2, ... in push order; a push is refused
\* only when Capacity elements are stored.
WraparoundSafe ==
  LET n == (head_ - tail_ + CursorMod) % CursorMod
      live == {s \in DOMAIN buf_ : buf_[s].state = "live"}
  IN /\ n <= Capacity
     /\ Cardinality(live) = n
     /\ \A k \in 0..(n - 1) :
          LET s == ((tail_ + k) % CursorMod) % Capacity
          IN s \in live /\ buf_[s].v = Len(got) + 1 + k
     /\ \A k \in 1..Len(got) : got[k] = k
     /\ n + Len(got) = prod.i - 1
     /\ (prod.pc = "idle" /\ prod.calls > 0 /\ ~prod.ret) =>
          (prod.head - prod.tail + CursorMod) % CursorMod = Capacity

\* head_ has wrapped and tail_ has not, the ring is full, the last push was
\* refused, and values pushed before the wrap have been popped in order
WraparoundSafeWitness ==
  /\ head_ < tail_
  /\ (head_ - tail_ + CursorMod) % CursorMod = Capacity
  /\ prod.pc = "idle" /\ prod.calls > 0 /\ ~prod.ret
  /\ prod.head = head_ /\ prod.tail = tail_
  /\ Len(got) >= 1

====
